---- MODULE Spec2Model ----
(***************************************************************************)
(* Model of the format-conversion subsystem of the architect CLI:          *)
(* format detection, the import command (detect / import / validate /      *)
(* merge / write), the merge of an imported API with .architect/api.yaml,  *)
(* the OpenAPI exporter and importer, the Postman importer, the init       *)
(* command and the debounced event loop of watch mode.                     *)
(*                                                                         *)
(* Go strings are TLA+ strings; TLC evaluates Len, \o and SubSeq on them.  *)
(* A Go map is a function with a finite domain of strings.  A nilable Go   *)
(* value (pointer, map, slice) is a sequence of length at most one:        *)
(* << >> is nil and << v >> is the non-nil value v.                        *)
(***************************************************************************)
EXTENDS Integers, Sequences, FiniteSets, TLC

VARIABLES
    pc,             \* position of runImport: the next stage to run
    src,            \* the file named on the command line
    format,         \* the --format flag, then the detected format tag
    mergeFlag,      \* --merge
    overwriteFlag,  \* --overwrite
    archDir,        \* whether .architect/ exists
    apiYaml,        \* .architect/api.yaml
    projectMd,      \* .architect/project.md
    rulesFile,      \* .cursor/rules/architect.mdc
    importedAPI,    \* runImport's importedAPI (nilable)
    finalAPI,       \* runImport's finalAPI (nilable)
    err,            \* "" or the stage whose error runImport returned
    trace,          \* history: the stages executed in this run, in order
    apiYamlBefore,  \* history: .architect/api.yaml when the run started
    existingAPI,    \* history: existingAPI as loaded by mergeWithExisting (nilable)
    rtA,            \* round trip: the API model being exported
    rtDoc,          \* round trip: the exported OpenAPI document (nilable)
    rtAPI,          \* round trip: the re-imported API (nilable)
    rtpc,           \* round trip: position
    pmCollection,   \* Postman import: the collection json.Unmarshal produced
    pmAPI,          \* Postman import: the API Import returned (nilable)
    pmpc,           \* Postman import: position
    alHeap,         \* merge by reference: the objects behind pointers, maps and slices
    alExisting,     \* merge by reference: existingAPI
    alImported,     \* merge by reference: importedAPI
    alMerged,       \* merge by reference: mergedAPI (nilable)
    alpc,           \* merge by reference: position
    inFlags,        \* init: the flags of the command line
    inDirExists,    \* init: whether .architect/ exists
    inPrompts,      \* init: history: the prompts issued so far, in order
    inProject,      \* init: the project collected (nilable); written at "written"
    inpc,           \* init: position of runInit
    wNow,           \* watch: the time, in ticks of 250 ms
    wTimer,         \* watch: the deadline of debounceTimer while it is pending (nilable)
    wRunning,       \* watch: callbacks inside runSync that have not reached the write
    wWriting,       \* watch: callbacks inside os.WriteFile of the rules file
    wEvent,         \* watch: the event or error the loop received last (nilable)
    wEvents,        \* watch: history: how many events and errors the loop received
    wLast,          \* watch: history: the time of the last event that called syncFunc (nilable)
    wBursts,        \* watch: history: the bursts of such events so far
    wSyncs          \* watch: history: the callbacks started so far

vars == << pc, src, format, mergeFlag, overwriteFlag, archDir, apiYaml,
           projectMd, rulesFile, importedAPI, finalAPI, err, trace,
           apiYamlBefore, existingAPI, rtA, rtDoc, rtAPI, rtpc,
           pmCollection, pmAPI, pmpc, alHeap, alExisting, alImported, alMerged,
           alpc, inFlags, inDirExists, inPrompts, inProject, inpc, wNow, wTimer,
           wRunning, wWriting, wEvent, wEvents, wLast, wBursts, wSyncs >>

importVars == << pc, src, format, mergeFlag, overwriteFlag, archDir, apiYaml,
                 projectMd, rulesFile, importedAPI, finalAPI, err, trace,
                 apiYamlBefore, existingAPI >>

rtVars == << rtA, rtDoc, rtAPI, rtpc >>

pmVars == << pmCollection, pmAPI, pmpc >>

alVars == << alHeap, alExisting, alImported, alMerged, alpc >>

inVars == << inFlags, inDirExists, inPrompts, inProject, inpc >>

wVars == << wNow, wTimer, wRunning, wWriting, wEvent, wEvents, wLast, wBursts, wSyncs >>

\* the variables an action of one command leaves alone
exceptImport == << rtVars, pmVars, alVars, inVars, wVars >>

exceptRT == << importVars, pmVars, alVars, inVars, wVars >>

exceptPM == << importVars, rtVars, alVars, inVars, wVars >>

exceptAl == << importVars, rtVars, pmVars, inVars, wVars >>

exceptIn == << importVars, rtVars, pmVars, alVars, wVars >>

exceptW == << importVars, rtVars, pmVars, alVars, inVars >>

-----------------------------------------------------------------------------
(* Bounds *)

\* most endpoints of the existing API and most endpoints of the imported API (merge)
MaxMergeEndpoints == 2

\* most endpoints of an API model that is exported and re-imported
MaxRTEndpoints == 2

\* most text fragments a detected file's content is made of
MaxFragments == 2

\* most endpoints of each API merged by reference
MaxAliasEndpoints == 2

\* most requests of a Postman collection whose auth is inferred
MaxAuthRequests == 2

\* most requests of a Postman collection whose base URL is inferred, apart
\* from the collection of six
MaxBaseRequests == 3

\* most items at the top of a Postman collection whose tree is flattened
MaxTreeItems == 2

\* most variables of a Postman collection whose paths are extracted
MaxPathVariables == 2

\* most servers of an OpenAPI document whose base URL is extracted
MaxServers == 2

\* most requests of a collection whose auth consistency is checked
MaxConsistencyRequests == 2

\* the last tick of the time a watch run is followed for
MaxTime == 6

\* most events and errors the watch loop receives
MaxEvents == 3

\* most ticks between the expiry of a timer and the start of its callback
MaxLatency == 1

\* most endpoints of an API handed to Validate
MaxValidateEndpoints == 3

-----------------------------------------------------------------------------
(* Nilable values and small helpers *)

Nil == << >>

Some(v) == << v >>

IsNil(o) == o = << >>

\* the sequences over S of length at most n
SeqsUpTo(S, n) == UNION { [1..k -> S] : k \in 0..n }

\* the elements of a sequence
Range(s) == { s[i] : i \in DOMAIN s }

\* every order in which the entries of a finite set can be appended to a slice
Perms(S) ==
    { s \in [1..Cardinality(S) -> S] : \A i, j \in 1..Cardinality(S) : s[i] = s[j] => i = j }

EmptyMap == << >>

-----------------------------------------------------------------------------
(* Go string functions *)

\* strings.Contains
Contains(s, sub) ==
    \E i \in 1..(Len(s) - Len(sub) + 1) : SubSeq(s, i, i + Len(sub) - 1) = sub

\* strings.HasPrefix
HasPrefix(s, p) == Len(s) >= Len(p) /\ SubSeq(s, 1, Len(p)) = p

\* strings.Index (0 when absent, else the 1-based position of the first match)
Index(s, sub) ==
    IF Contains(s, sub)
    THEN CHOOSE i \in 1..(Len(s) - Len(sub) + 1) :
            /\ SubSeq(s, i, i + Len(sub) - 1) = sub
            /\ \A j \in 1..(i - 1) : SubSeq(s, j, j + Len(sub) - 1) # sub
    ELSE 0

LowerLetters == "abcdefghijklmnopqrstuvwxyz"

UpperLetters == "ABCDEFGHIJKLMNOPQRSTUVWXYZ"

MapChar(c, from, to) ==
    IF Contains(from, c) THEN SubSeq(to, Index(from, c), Index(from, c)) ELSE c

RECURSIVE MapString(_, _, _)
MapString(s, from, to) ==
    IF Len(s) = 0 THEN ""
    ELSE MapChar(SubSeq(s, 1, 1), from, to) \o MapString(SubSeq(s, 2, Len(s)), from, to)

\* strings.ToUpper
ToUpper(s) == MapString(s, LowerLetters, UpperLetters)

\* strings.ToLower
ToLower(s) == MapString(s, UpperLetters, LowerLetters)

\* strings.SplitN(s, sep, n) for n >= 1 and a one-character sep
RECURSIVE SplitN(_, _, _)
SplitN(s, sep, n) ==
    IF n = 1 \/ ~Contains(s, sep) THEN << s >>
    ELSE << SubSeq(s, 1, Index(s, sep) - 1) >>
            \o SplitN(SubSeq(s, Index(s, sep) + 1, Len(s)), sep, n - 1)

\* strings.Split(s, sep) for a one-character sep
Split(s, sep) == SplitN(s, sep, Len(s) + 1)

\* strings.TrimSpace (the model's strings hold no space other than " ")
RECURSIVE TrimSpace(_)
TrimSpace(s) ==
    IF Len(s) > 0 /\ SubSeq(s, 1, 1) = " " THEN TrimSpace(SubSeq(s, 2, Len(s)))
    ELSE IF Len(s) > 0 /\ SubSeq(s, Len(s), Len(s)) = " " THEN TrimSpace(SubSeq(s, 1, Len(s) - 1))
    ELSE s

\* filepath.Ext: the suffix from the last "." of the last path element, or ""
RECURSIVE ExtFrom(_, _)
ExtFrom(path, i) ==
    IF i < 1 \/ SubSeq(path, i, i) = "/" THEN ""
    ELSE IF SubSeq(path, i, i) = "." THEN SubSeq(path, i, Len(path))
    ELSE ExtFrom(path, i - 1)

Ext(path) == ExtFrom(path, Len(path))

\* fmt.Sprintf("%d", n) for the status codes of the model
Itoa(n) ==
    LET d(k) == SubSeq("0123456789", k + 1, k + 1)
    IN  IF n < 10 THEN d(n)
        ELSE IF n < 100 THEN d(n \div 10) \o d(n % 10)
        ELSE d(n \div 100) \o d((n \div 10) % 10) \o d(n % 10)

-----------------------------------------------------------------------------
(* The API model (internal/models/api.go) *)

\* models.ErrorResponse
ErrorResponse(status, code, message) ==
    [Status |-> status, Code |-> code, Message |-> message]

\* models.EndpointRequest: three nilable field maps
EndpointRequest(params, query, body) ==
    [Params |-> params, Query |-> query, Body |-> body]

\* models.EndpointResponse
EndpointResponse(status, body) == [Status |-> status, Body |-> body]

\* models.Endpoint; Request and Response are nilable pointers
Endpoint(path, method, description, auth, request, response, errors) ==
    [Path |-> path, Method |-> method, Description |-> description, Auth |-> auth,
     Request |-> request, Response |-> response, Errors |-> errors]

\* models.API
API(baseURL, authType, endpoints) ==
    [BaseURL |-> baseURL, AuthType |-> authType, Endpoints |-> endpoints]

-----------------------------------------------------------------------------
(* .architect/api.yaml: a file that is missing, unreadable, malformed or a   *)
(* YAML document whose top-level keys may each be absent                     *)

YamlDoc(base_url, auth_type, endpoints) ==
    [base_url |-> base_url, auth_type |-> auth_type, endpoints |-> endpoints]

NoDoc == YamlDoc(Nil, Nil, Nil)

File(st, doc) == [st |-> st, doc |-> doc]

MissingFile == File("missing", NoDoc)

UnreadableFile == File("unreadable", NoDoc)

MalformedFile == File("malformed", NoDoc)

\* yaml.Unmarshal(content, into): a key absent from the document leaves the
\* field of the target struct as it was
YamlUnmarshalAPI(doc, into) ==
    API(IF IsNil(doc.base_url) THEN into.BaseURL ELSE doc.base_url[1],
        IF IsNil(doc.auth_type) THEN into.AuthType ELSE doc.auth_type[1],
        IF IsNil(doc.endpoints) THEN into.Endpoints ELSE doc.endpoints[1])

\* a field map tagged omitempty is left out when nil or empty and is nil when read back
YamlOmitEmptyMap(m) == IF IsNil(m) \/ m[1] = EmptyMap THEN Nil ELSE m

\* what yaml.Marshal keeps of an endpoint (the omitempty tags of api.go)
YamlEndpoint(e) ==
    [e EXCEPT
        !.Request = IF IsNil(e.Request) THEN Nil
                    ELSE Some(EndpointRequest(YamlOmitEmptyMap(e.Request[1].Params),
                                              YamlOmitEmptyMap(e.Request[1].Query),
                                              YamlOmitEmptyMap(e.Request[1].Body))),
        !.Response = IF IsNil(e.Response) THEN Nil
                     ELSE Some(EndpointResponse(e.Response[1].Status,
                                                YamlOmitEmptyMap(e.Response[1].Body)))]

\* yaml.Marshal(api): all three top-level keys are written
YamlMarshalAPI(api) ==
    YamlDoc(Some(api.BaseURL), Some(api.AuthType),
            Some([i \in DOMAIN api.Endpoints |-> YamlEndpoint(api.Endpoints[i])]))

-----------------------------------------------------------------------------
(* mergeWithExisting (import command) *)

DefaultBaseURL == "/api/v1"

\* the baseline mergeWithExisting starts from
BaselineAPI == API(DefaultBaseURL, "none", << >>)

LoadExistingLenient(file) ==
    IF file.st = "ok" THEN [err |-> "", api |-> YamlUnmarshalAPI(file.doc, BaselineAPI)]
    ELSE [err |-> "", api |-> BaselineAPI]

\* the load of .architect/api.yaml: an error stage or the existing API
LoadExisting(file) ==
    IF file.st = "missing" THEN [err |-> "", api |-> BaselineAPI]
    ELSE IF file.st = "unreadable" THEN [err |-> "read", api |-> BaselineAPI]
    ELSE IF file.st = "malformed" THEN [err |-> "parse", api |-> BaselineAPI]
    ELSE [err |-> "", api |-> YamlUnmarshalAPI(file.doc, BaselineAPI)]

EndpointKeyPathOnly(endpoint) == endpoint.Path

\* key := fmt.Sprintf("%s:%s", endpoint.Method, endpoint.Path)
EndpointKey(endpoint) == endpoint.Method \o ":" \o endpoint.Path

\* the keys of a list of endpoints
KeysOf(endpoints) == { EndpointKey(endpoints[i]) : i \in DOMAIN endpoints }

EndpointMapKeepFirst(existing, imported) ==
    LET all == existing \o imported
    IN  [k \in KeysOf(all) |->
            all[CHOOSE i \in DOMAIN all :
                    /\ EndpointKey(all[i]) = k
                    /\ \A j \in DOMAIN all : EndpointKey(all[j]) = k => i <= j]]

\* endpointMap after the two loops: existing endpoints first, then imported
\* ones, each assignment overwriting the entry of its key
EndpointMap(existing, imported) ==
    LET all == existing \o imported
    IN  [k \in KeysOf(all) |->
            all[CHOOSE i \in DOMAIN all :
                    /\ EndpointKey(all[i]) = k
                    /\ \A j \in DOMAIN all : EndpointKey(all[j]) = k => j <= i]]

MergedBaseURLAlwaysImported(existing, imported) == imported.BaseURL

\* mergedAPI.BaseURL: the existing one unless the imported one is set and
\* is not the default
MergedBaseURL(existing, imported) ==
    IF imported.BaseURL # "" /\ imported.BaseURL # DefaultBaseURL
    THEN imported.BaseURL ELSE existing.BaseURL

\* mergedAPI.AuthType: the existing one unless the imported one is set and
\* is not "none"
MergedAuthType(existing, imported) ==
    IF imported.AuthType # "" /\ imported.AuthType # "none"
    THEN imported.AuthType ELSE existing.AuthType

MergeResultsAppend(existing, imported) ==
    { API(MergedBaseURL(existing, imported), MergedAuthType(existing, imported),
          existing.Endpoints \o imported.Endpoints) }

\* every API mergeWithExisting can return: the map is ranged over in an
\* order the Go runtime chooses
MergeResults(existing, imported) ==
    LET m == EndpointMap(existing.Endpoints, imported.Endpoints)
    IN  { API(MergedBaseURL(existing, imported), MergedAuthType(existing, imported),
              [i \in DOMAIN p |-> m[p[i]]]) : p \in Perms(DOMAIN m) }

-----------------------------------------------------------------------------
(* exportOpenAPI (export command).  A JSON object is a function from its     *)
(* keys, a JSON array a sequence.  The one exception is the "required"       *)
(* array of a schema: json.Marshal writes it in the order Go ranged over the *)
(* field map and the importer reads it into a set, so it is kept as a set.   *)

ApplicationJSON == "application/json"

mapType(t) ==
    CASE t \in { "uuid", "datetime" } -> "string"
      [] t \in { "integer", "number" } -> "number"
      [] t = "boolean" -> "boolean"
      [] t = "array" -> "array"
      [] t = "object" -> "object"
      [] OTHER -> "string"

\* parts := strings.Split(defStr, ","); every descriptor of the model is a string
DescriptorParts(def) == Split(def, ",")

buildSchema(fields) ==
    [type |-> "object",
     properties |->
        [f \in DOMAIN fields |-> [type |-> mapType(TrimSpace(DescriptorParts(fields[f])[1]))]],
     required |->
        { f \in DOMAIN fields :
            \E k \in 2..Len(DescriptorParts(fields[f])) :
                TrimSpace(DescriptorParts(fields[f])[k]) = "required" }]

JSONContent(fields) == ApplicationJSON :> [schema |-> buildSchema(fields)]

buildRequestBody(request) ==
    [required |-> TRUE, content |-> JSONContent(request.Body[1])]

\* responses[status] of the success response, then one entry per error, each
\* assignment overwriting the entry of its status
buildResponses(endpoint) ==
    LET success ==
            IF IsNil(endpoint.Response) THEN EmptyMap
            ELSE Itoa(endpoint.Response[1].Status) :>
                    (IF IsNil(endpoint.Response[1].Body)
                     THEN [description |-> "Success"]
                     ELSE [description |-> "Success",
                           content |-> JSONContent(endpoint.Response[1].Body[1])])
        errs == endpoint.Errors
        errKeys == { Itoa(errs[i].Status) : i \in DOMAIN errs }
        lastErr(k) == errs[CHOOSE i \in DOMAIN errs :
                            /\ Itoa(errs[i].Status) = k
                            /\ \A j \in DOMAIN errs : Itoa(errs[j].Status) = k => j <= i]
    IN  [k \in DOMAIN success \cup errKeys |->
            IF k \in errKeys THEN [description |-> lastErr(k).Message] ELSE success[k]]

ExportOperationNoSecurity(endpoint) ==
    [summary |-> endpoint.Description,
     security |-> << >>,
     responses |-> buildResponses(endpoint)]
    @@ (IF ~IsNil(endpoint.Request) /\ ~IsNil(endpoint.Request[1].Body)
        THEN [requestBody |-> buildRequestBody(endpoint.Request[1])]
        ELSE EmptyMap)

\* the operation object written for one endpoint
ExportOperation(endpoint) ==
    [summary |-> endpoint.Description,
     security |-> IF endpoint.Auth THEN << [bearerAuth |-> << >>] >> ELSE << >>,
     responses |-> buildResponses(endpoint)]
    @@ (IF ~IsNil(endpoint.Request) /\ ~IsNil(endpoint.Request[1].Body)
        THEN [requestBody |-> buildRequestBody(endpoint.Request[1])]
        ELSE EmptyMap)

\* paths[path][strings.ToLower(method)] after the loop over api.Endpoints:
\* a later endpoint overwrites the operation of an earlier one
ExportPaths(endpoints) ==
    LET slot(e) == << e.Path, ToLower(e.Method) >>
        last(p, m) == endpoints[CHOOSE i \in DOMAIN endpoints :
                            /\ slot(endpoints[i]) = << p, m >>
                            /\ \A j \in DOMAIN endpoints :
                                  slot(endpoints[j]) = << p, m >> => j <= i]
    IN  [p \in { endpoints[i].Path : i \in DOMAIN endpoints } |->
            [m \in { ToLower(endpoints[i].Method) :
                        i \in { j \in DOMAIN endpoints : endpoints[j].Path = p } } |->
                ExportOperation(last(p, m))]]

exportOpenAPI(api) ==
    [openapi |-> "3.0.0",
     info |-> [title |-> "API Documentation", version |-> "1.0.0"],
     servers |-> << [url |-> api.BaseURL] >>,
     paths |-> ExportPaths(api.Endpoints)]
    @@ (IF api.AuthType = "bearer"
        THEN [components |->
                [securitySchemes |->
                    [bearerAuth |-> [type |-> "http", scheme |-> "bearer",
                                     bearerFormat |-> "JWT"]]]]
        ELSE EmptyMap)

-----------------------------------------------------------------------------
(* OpenAPIImporter (internal/importers/openapi.go) *)

\* the structs json.Unmarshal and yaml.Unmarshal fill
OpenAPIMediaType(schema) == [Schema |-> schema]

OpenAPIResponse(content) == [Content |-> content]

OpenAPIRequestBody(content) == [Content |-> content]

OpenAPIParameter(name, in, required, schema) ==
    [Name |-> name, In |-> in, Required |-> required, Schema |-> schema]

OpenAPIOperation(summary, description, parameters, requestBody, responses, security) ==
    [Summary |-> summary, Description |-> description, Parameters |-> parameters,
     RequestBody |-> requestBody, Responses |-> responses, Security |-> security]

OpenAPI(servers, paths) == [Servers |-> servers, Paths |-> paths]

\* json.Unmarshal of a content object: media type -> OpenAPIMediaType
UnmarshalContent(content) ==
    [ct \in DOMAIN content |->
        OpenAPIMediaType(IF "schema" \in DOMAIN content[ct]
                         THEN Some(content[ct].schema) ELSE Nil)]

\* json.Unmarshal of an operation object: an absent key leaves the zero value
UnmarshalOperation(o) ==
    OpenAPIOperation(
        IF "summary" \in DOMAIN o THEN o.summary ELSE "",
        IF "description" \in DOMAIN o THEN o.description ELSE "",
        << >>,
        IF "requestBody" \in DOMAIN o
        THEN Some(OpenAPIRequestBody(UnmarshalContent(o.requestBody.content)))
        ELSE Nil,
        IF "responses" \in DOMAIN o
        THEN [st \in DOMAIN o.responses |->
                OpenAPIResponse(IF "content" \in DOMAIN o.responses[st]
                                THEN UnmarshalContent(o.responses[st].content)
                                ELSE EmptyMap)]
        ELSE EmptyMap,
        IF "security" \in DOMAIN o THEN o.security ELSE << >>)

\* json.Unmarshal(content, &openAPI) of a document exportOpenAPI wrote
UnmarshalOpenAPI(json) ==
    OpenAPI(IF "servers" \in DOMAIN json
            THEN [i \in DOMAIN json.servers |-> [URL |-> json.servers[i].url]]
            ELSE << >>,
            IF "paths" \in DOMAIN json
            THEN [p \in DOMAIN json.paths |->
                    [m \in DOMAIN json.paths[p] |-> UnmarshalOperation(json.paths[p][m])]]
            ELSE EmptyMap)

OpenAPIExtractBaseURLAlwaysSlash(servers) ==
    IF Len(servers) = 0 THEN "/api/v1" ELSE "/" \o servers[1].URL

\* OpenAPIImporter.extractBaseURL
OpenAPIExtractBaseURL(servers) ==
    IF Len(servers) = 0 THEN "/api/v1"
    ELSE LET url == servers[1].URL
             parts == SplitN(url, "/", 4)
         IN  IF HasPrefix(url, "http://") \/ HasPrefix(url, "https://")
             THEN IF Len(parts) >= 4 THEN "/" \o parts[4] ELSE "/api/v1"
             ELSE IF ~HasPrefix(url, "/") THEN "/" \o url ELSE url

\* OpenAPIImporter.determineAuthType
OpenAPIDetermineAuthType(openAPI) ==
    IF \E p \in DOMAIN openAPI.Paths : \E m \in DOMAIN openAPI.Paths[p] :
            Len(openAPI.Paths[p][m].Security) > 0
    THEN "bearer" ELSE "none"

convertSchemaTypeKeepNumber(schema) ==
    IF IsNil(schema) THEN "string"
    ELSE IF "type" \in DOMAIN schema[1] THEN schema[1].type
    ELSE "string"

\* OpenAPIImporter.convertSchemaType: the switch on "type" returns in every
\* case, so "format" is read only when the schema has no "type"
convertSchemaType(schema) ==
    IF IsNil(schema) THEN "string"
    ELSE IF "type" \in DOMAIN schema[1]
         THEN CASE schema[1].type \in { "integer", "number" } -> "integer"
                [] schema[1].type = "boolean" -> "boolean"
                [] schema[1].type = "array" -> "array"
                [] schema[1].type = "object" -> "object"
                [] OTHER -> "string"
         ELSE IF "format" \in DOMAIN schema[1]
              THEN CASE schema[1].format = "uuid" -> "uuid"
                     [] schema[1].format = "date-time" -> "datetime"
                     [] OTHER -> "string"
              ELSE "string"

\* OpenAPIImporter.parseSchemaProperties
parseSchemaProperties(schema) ==
    IF IsNil(schema) \/ "properties" \notin DOMAIN schema[1] THEN EmptyMap
    ELSE LET props == schema[1].properties
             requiredFields == IF "required" \in DOMAIN schema[1]
                               THEN schema[1].required ELSE {}
         IN  [name \in DOMAIN props |->
                convertSchemaType(Some(props[name]))
                    \o (IF name \in requiredFields THEN ", required" ELSE ", optional")]

\* OpenAPIImporter.extractSchemaFields: every map it can return; the two
\* loops range over the content map in an order the Go runtime chooses
extractSchemaFields(content) ==
    LET jsonTypes == { ct \in DOMAIN content : Contains(ct, "json") }
        first == IF jsonTypes = {} THEN { EmptyMap }
                 ELSE { parseSchemaProperties(content[ct].Schema) : ct \in jsonTypes }
    IN  UNION { IF fields = EmptyMap /\ DOMAIN content # {}
                THEN { parseSchemaProperties(content[ct].Schema) : ct \in DOMAIN content }
                ELSE { fields } : fields \in first }

\* OpenAPIImporter.parseStatusCode
parseStatusCode(statusCode) ==
    CASE statusCode = "200" -> 200
      [] statusCode = "201" -> 201
      [] statusCode = "204" -> 204
      [] statusCode = "400" -> 400
      [] statusCode = "401" -> 401
      [] statusCode = "403" -> 403
      [] statusCode = "404" -> 404
      [] statusCode = "500" -> 500
      [] OTHER -> 200

\* the request of a converted operation: parameters in list order, then the body
ConvertRequests(operation) ==
    IF IsNil(operation.RequestBody) /\ Len(operation.Parameters) = 0 THEN { Nil }
    ELSE LET ps == operation.Parameters
             paramType(i) == convertSchemaType(ps[i].Schema)
                                \o (IF ps[i].Required THEN ", required" ELSE ", optional")
             lastOf(in, name) == CHOOSE i \in DOMAIN ps :
                                    /\ ps[i].In = in /\ ps[i].Name = name
                                    /\ \A j \in DOMAIN ps :
                                          (ps[j].In = in /\ ps[j].Name = name) => j <= i
             mapOf(in) == [name \in { ps[i].Name : i \in { j \in DOMAIN ps : ps[j].In = in } } |->
                              paramType(lastOf(in, name))]
             bodies == IF IsNil(operation.RequestBody) THEN { EmptyMap }
                       ELSE extractSchemaFields(operation.RequestBody[1].Content)
         IN  { Some(EndpointRequest(Some(mapOf("path")), Some(mapOf("query")), Some(body))) :
                 body \in bodies }

\* the response of a converted operation: the first 2xx entry of a map that
\* is ranged over in an order the Go runtime chooses
ConvertResponses(operation) ==
    LET ok == { st \in DOMAIN operation.Responses : HasPrefix(st, "2") }
    IN  IF ok = {} THEN { Nil }
        ELSE UNION { { Some(EndpointResponse(parseStatusCode(st), Some(body))) :
                          body \in extractSchemaFields(operation.Responses[st].Content) } :
                     st \in ok }

\* OpenAPIImporter.convertOperation: every endpoint it can return
convertOperation(path, method, operation) ==
    { Endpoint(path, method,
               IF operation.Summary = "" THEN operation.Description ELSE operation.Summary,
               Len(operation.Security) > 0, request, response, << >>) :
        request \in ConvertRequests(operation), response \in ConvertResponses(operation) }

\* the (path, method) entries of the paths map, in every order the nested
\* range loops of Import can visit them: path by path
ImportOrders(paths) ==
    LET entries == UNION { { << p, m >> : m \in DOMAIN paths[p] } : p \in DOMAIN paths }
    IN  { s \in Perms(entries) :
            \A i, j, k \in DOMAIN s : (i < j /\ j < k /\ s[i][1] = s[k][1]) => s[j][1] = s[i][1] }

\* OpenAPIImporter.Import after the document is parsed: every API it can return
OpenAPIConvert(openAPI) ==
    LET conv(entry) == convertOperation(entry[1], ToUpper(entry[2]),
                                        openAPI.Paths[entry[1]][entry[2]])
    IN  UNION { { API(OpenAPIExtractBaseURL(openAPI.Servers),
                      OpenAPIDetermineAuthType(openAPI), endpoints) :
                    endpoints \in { el \in [DOMAIN s -> UNION { conv(s[i]) : i \in DOMAIN s }] :
                                      \A i \in DOMAIN s : el[i] \in conv(s[i]) } } :
                s \in ImportOrders(openAPI.Paths) }

ValidateEndpointsLastIndex(api) ==
    IF IsNil(api) THEN "API cannot be nil"
    ELSE IF api[1].BaseURL = "" THEN "base URL is required"
    ELSE LET bad == { i \in DOMAIN api[1].Endpoints :
                        api[1].Endpoints[i].Path = "" \/ api[1].Endpoints[i].Method = "" }
             last == CHOOSE i \in bad : \A j \in bad : j <= i
         IN  IF bad = {} THEN ""
             ELSE IF api[1].Endpoints[last].Path = ""
                  THEN "endpoint " \o Itoa(last - 1) \o ": path is required"
                  ELSE "endpoint " \o Itoa(last - 1) \o ": method is required"

\* OpenAPIImporter.Validate and PostmanImporter.Validate: "" or the error
ValidateEndpoints(api) ==
    IF IsNil(api) THEN "API cannot be nil"
    ELSE IF api[1].BaseURL = "" THEN "base URL is required"
    ELSE LET bad == { i \in DOMAIN api[1].Endpoints :
                        api[1].Endpoints[i].Path = "" \/ api[1].Endpoints[i].Method = "" }
             first == CHOOSE i \in bad : \A j \in bad : i <= j
         IN  IF bad = {} THEN ""
             ELSE IF api[1].Endpoints[first].Path = ""
                  THEN "endpoint " \o Itoa(first - 1) \o ": path is required"
                  ELSE "endpoint " \o Itoa(first - 1) \o ": method is required"

\* ArchitectImporter.Validate: "" or the error
ValidateArchitect(api) ==
    IF IsNil(api) THEN "API cannot be nil"
    ELSE IF api[1].BaseURL = "" THEN "base URL is required"
    ELSE ""

-----------------------------------------------------------------------------
(* More Go library functions, as the Postman importer uses them *)

Digits == "0123456789"

\* every character of s is one of chars
AllIn(s, chars) == \A i \in 1..Len(s) : Contains(chars, SubSeq(s, i, i))

\* s from position i to its end
From(s, i) == IF i > Len(s) THEN "" ELSE SubSeq(s, i, Len(s))

\* strings.Cut(s, sep): the text before the first sep (all of s without one)
CutBefore(s, sep) == IF Contains(s, sep) THEN SubSeq(s, 1, Index(s, sep) - 1) ELSE s

\* strings.LastIndex for a one-character sub (0 when absent)
LastIndex(s, sub) ==
    IF Contains(s, sub)
    THEN CHOOSE i \in 1..Len(s) :
            /\ SubSeq(s, i, i) = sub
            /\ \A j \in (i + 1)..Len(s) : SubSeq(s, j, j) # sub
    ELSE 0

\* strings.Trim(s, c) for a one-character cutset
RECURSIVE Trim(_, _)
Trim(s, c) ==
    IF Len(s) > 0 /\ SubSeq(s, 1, 1) = c THEN Trim(From(s, 2), c)
    ELSE IF Len(s) > 0 /\ SubSeq(s, Len(s), Len(s)) = c THEN Trim(SubSeq(s, 1, Len(s) - 1), c)
    ELSE s

\* strings.Join
RECURSIVE Join(_, _)
Join(parts, sep) ==
    IF Len(parts) = 0 THEN ""
    ELSE IF Len(parts) = 1 THEN parts[1]
    ELSE parts[1] \o sep \o Join(Tail(parts), sep)

\* strings.ReplaceAll(s, old, new) for a non-empty old
RECURSIVE ReplaceAll(_, _, _)
ReplaceAll(s, old, new) ==
    IF Len(s) < Len(old) THEN s
    ELSE IF HasPrefix(s, old) THEN new \o ReplaceAll(From(s, Len(old) + 1), old, new)
    ELSE SubSeq(s, 1, 1) \o ReplaceAll(From(s, 2), old, new)

\* url.getScheme: 0 when the text has no scheme, -1 for "missing protocol
\* scheme", else the position of the ":" that ends the scheme
RECURSIVE SchemeEnd(_, _)
SchemeEnd(s, i) ==
    IF i > Len(s) THEN 0
    ELSE LET c == SubSeq(s, i, i)
         IN  IF Contains(LowerLetters \o UpperLetters, c) THEN SchemeEnd(s, i + 1)
             ELSE IF Contains(Digits \o "+-.", c)
                  THEN IF i = 1 THEN 0 ELSE SchemeEnd(s, i + 1)
             ELSE IF c = ":" THEN (IF i = 1 THEN -1 ELSE i)
             ELSE 0

\* the characters url.Parse lets stand in a host
HostChars == LowerLetters \o UpperLetters \o Digits \o "-_.~!$&'()*+,;=:<>"

\* url.parseHost, for a host without "[", "%" and "@"
ValidHost(host) ==
    /\ AllIn(host, HostChars)
    /\ Contains(host, ":") => AllIn(From(host, LastIndex(host, ":") + 1), Digits)

\* url.Parse(raw).Path, or the failure of url.Parse, for a text without "%",
\* "@", "[", blanks and control bytes: the fragment and the query are cut
\* off, then the scheme, then the authority after "//"
URLParse(raw) ==
    LET u == CutBefore(raw, "#")
        colon == SchemeEnd(u, 1)
        scheme == IF colon > 0 THEN SubSeq(u, 1, colon - 1) ELSE ""
        rest == CutBefore(IF colon > 0 THEN From(u, colon + 1) ELSE u, "?")
        authority == CutBefore(From(rest, 3), "/")
    IN  IF colon = -1 THEN [ok |-> FALSE, Path |-> ""]
        ELSE IF ~HasPrefix(rest, "/")
             THEN IF scheme # "" THEN [ok |-> TRUE, Path |-> ""]
                  ELSE IF Contains(CutBefore(rest, "/"), ":") THEN [ok |-> FALSE, Path |-> ""]
                  ELSE [ok |-> TRUE, Path |-> rest]
        ELSE IF (scheme # "" \/ ~HasPrefix(rest, "///")) /\ HasPrefix(rest, "//")
             THEN IF ValidHost(authority)
                  THEN [ok |-> TRUE, Path |-> From(rest, 3 + Len(authority))]
                  ELSE [ok |-> FALSE, Path |-> ""]
        ELSE [ok |-> TRUE, Path |-> rest]

\* the length of the longest run of characters other than "}" from position i
RECURSIVE RunLen(_, _)
RunLen(s, i) == IF i > Len(s) \/ SubSeq(s, i, i) = "}" THEN 0 ELSE 1 + RunLen(s, i + 1)

\* regexp \{\{([^}]+)\}\} with ReplaceAllString(path, "{$1}"): matches are
\* taken leftmost first and do not overlap
RECURSIVE TemplateToParam(_)
TemplateToParam(s) ==
    IF Len(s) = 0 THEN ""
    ELSE LET n == RunLen(s, 3)
         IN  IF HasPrefix(s, "{{") /\ n >= 1 /\ Len(s) >= 4 + n
                /\ SubSeq(s, 3 + n, 4 + n) = "}}"
             THEN "{" \o SubSeq(s, 3, 2 + n) \o "}" \o TemplateToParam(From(s, 5 + n))
             ELSE SubSeq(s, 1, 1) \o TemplateToParam(From(s, 2))

-----------------------------------------------------------------------------
(* PostmanImporter (internal/importers/postman.go) *)

\* the structs json.Unmarshal fills; a pointer field is nilable
PostmanAuth(type) == [Type |-> type]

PostmanVariable(key, value) == [Key |-> key, Value |-> value]

PostmanHeader(key, value) == [Key |-> key, Value |-> value]

PostmanQuery(key, value, disabled) == [Key |-> key, Value |-> value, Disabled |-> disabled]

PostmanFormParameter(key, value, type, disabled) ==
    [Key |-> key, Value |-> value, Type |-> type, Disabled |-> disabled]

PostmanURL(raw, path, query, variable) ==
    [Raw |-> raw, Path |-> path, Query |-> query, Variable |-> variable]

\* a JSON value as json.Unmarshal hands it over in an interface{}
JSONValue(kind, str) == [kind |-> kind, str |-> str]

\* the raw text of a body: whether it is empty, and the map json.Unmarshal
\* decodes it into (nil when it is not a JSON object)
RawText(empty, json) == [empty |-> empty, json |-> json, null |-> FALSE]

\* the raw text null: json.Unmarshal returns no error and leaves the map nil
RawNull == [empty |-> FALSE, json |-> Nil, null |-> TRUE]

PostmanBody(mode, raw, urlencoded, formdata) ==
    [Mode |-> mode, Raw |-> raw, URLEncoded |-> urlencoded, FormData |-> formdata]

PostmanRequest(method, header, body, url, auth, description) ==
    [Method |-> method, Header |-> header, Body |-> body, URL |-> url, Auth |-> auth,
     Description |-> description]

PostmanItem(name, request, item) == [Name |-> name, Request |-> request, Item |-> item]

PostmanCollection(schema, item, auth, variable) ==
    [Info |-> [Schema |-> schema], Item |-> item, Auth |-> auth, Variable |-> variable]

\* PostmanImporter.mapPostmanAuthType
mapPostmanAuthType(postmanType) ==
    CASE ToLower(postmanType) = "bearer" -> "bearer"
      [] ToLower(postmanType) = "basic" -> "basic"
      [] ToLower(postmanType) = "apikey" -> "apikey"
      [] ToLower(postmanType) \in { "oauth1", "oauth2" } -> "bearer"
      [] OTHER -> "none"

\* PostmanImporter.getAllRequests: the items that carry a request, depth first
RECURSIVE getAllRequests(_)
getAllRequests(items) ==
    IF Len(items) = 0 THEN << >>
    ELSE (IF ~IsNil(items[1].Request) THEN << items[1] >>
          ELSE IF Len(items[1].Item) > 0 THEN getAllRequests(items[1].Item)
          ELSE << >>)
         \o getAllRequests(Tail(items))

\* the header loop of determineAuthType: "" when no header decides
RECURSIVE HeaderAuthType(_)
HeaderAuthType(headers) ==
    IF Len(headers) = 0 THEN ""
    ELSE LET key == ToLower(headers[1].Key)
             value == ToLower(headers[1].Value)
         IN  IF key = "authorization" /\ Contains(value, "bearer") THEN "bearer"
             ELSE IF key = "authorization" /\ Contains(value, "basic") THEN "basic"
             ELSE IF key = "x-api-key" THEN "apikey"
             ELSE HeaderAuthType(Tail(headers))

\* the request loop of determineAuthType
RECURSIVE RequestsAuthType(_)
RequestsAuthType(requests) ==
    IF Len(requests) = 0 THEN "none"
    ELSE LET request == requests[1].Request[1]
         IN  IF ~IsNil(request.Auth) THEN mapPostmanAuthType(request.Auth[1].Type)
             ELSE IF HeaderAuthType(request.Header) # "" THEN HeaderAuthType(request.Header)
             ELSE RequestsAuthType(Tail(requests))

PostmanDetermineAuthTypeRequestFirst(collection) ==
    LET requests == getAllRequests(collection.Item)
        declared == { i \in DOMAIN requests : ~IsNil(requests[i].Request[1].Auth) }
    IN  IF declared # { }
        THEN mapPostmanAuthType(
                requests[CHOOSE i \in declared : \A j \in declared : i <= j].Request[1].Auth[1].Type)
        ELSE IF ~IsNil(collection.Auth) THEN mapPostmanAuthType(collection.Auth[1].Type)
        ELSE RequestsAuthType(requests)

\* PostmanImporter.determineAuthType
PostmanDetermineAuthType(collection) ==
    IF ~IsNil(collection.Auth) THEN mapPostmanAuthType(collection.Auth[1].Type)
    ELSE RequestsAuthType(getAllRequests(collection.Item))

requestRequiresAuthFallThrough(request, collection) ==
    \/ ~IsNil(request.Auth) /\ request.Auth[1].Type \notin { "noauth", "" }
    \/ ~IsNil(collection.Auth) /\ collection.Auth[1].Type \notin { "noauth", "" }
    \/ \E i \in DOMAIN request.Header :
          ToLower(request.Header[i].Key) \in { "authorization", "x-api-key" }

\* PostmanImporter.requestRequiresAuth
requestRequiresAuth(request, collection) ==
    IF ~IsNil(request.Auth) THEN request.Auth[1].Type \notin { "noauth", "" }
    ELSE IF ~IsNil(collection.Auth) THEN collection.Auth[1].Type \notin { "noauth", "" }
    ELSE \E i \in DOMAIN request.Header :
            ToLower(request.Header[i].Key) \in { "authorization", "x-api-key" }

isPathParameterDigitsOnly(value) == Len(value) > 0 /\ AllIn(value, Digits)

\* PostmanImporter.isPathParameter: ^\d+$, ^[a-f0-9-]+$ or ^\{\w+\}$
isPathParameter(value) ==
    \/ Len(value) > 0 /\ AllIn(value, Digits)
    \/ Len(value) > 0 /\ AllIn(value, "abcdef" \o Digits \o "-")
    \/ /\ Len(value) >= 3
       /\ SubSeq(value, 1, 1) = "{"
       /\ SubSeq(value, Len(value), Len(value)) = "}"
       /\ AllIn(SubSeq(value, 2, Len(value) - 1), LowerLetters \o UpperLetters \o Digits \o "_")

\* the loop of replacePostmanVariables over collection.Variable
RECURSIVE SubstituteVariables(_, _)
SubstituteVariables(path, variables) ==
    IF Len(variables) = 0 THEN path
    ELSE LET placeholder == "{" \o variables[1].Key \o "}"
         IN  SubstituteVariables(
                IF Contains(path, placeholder) /\ variables[1].Value # ""
                   /\ ~isPathParameter(variables[1].Value)
                THEN ReplaceAll(path, placeholder, variables[1].Value)
                ELSE path,
                Tail(variables))

\* PostmanImporter.replacePostmanVariables
replacePostmanVariables(path, collection) ==
    SubstituteVariables(TemplateToParam(path), collection.Variable)

\* PostmanImporter.extractPath
extractPath(postmanURL, collection) ==
    IF postmanURL.Raw # "" /\ URLParse(postmanURL.Raw).ok
    THEN replacePostmanVariables(URLParse(postmanURL.Raw).Path, collection)
    ELSE IF Len(postmanURL.Path) > 0
         THEN replacePostmanVariables("/" \o Join(postmanURL.Path, "/"), collection)
    ELSE ""

\* the segments findCommonPathPrefix keeps: common to all lists up to the
\* first difference, without those that hold "{{"
RECURSIVE CommonSegments(_, _, _)
CommonSegments(pathSegments, idx, minLength) ==
    IF idx > minLength THEN << >>
    ELSE IF \E k \in DOMAIN pathSegments : pathSegments[k][idx] # pathSegments[1][idx]
         THEN << >>
    ELSE (IF Contains(pathSegments[1][idx], "{{") THEN << >> ELSE << pathSegments[1][idx] >>)
         \o CommonSegments(pathSegments, idx + 1, minLength)

\* the elements of a sequence that satisfy a test, in order
RECURSIVE SelectSeqBy(_, _)
SelectSeqBy(s, keep) ==
    IF Len(s) = 0 THEN << >>
    ELSE (IF s[1] \in keep THEN << s[1] >> ELSE << >>) \o SelectSeqBy(Tail(s), keep)

\* PostmanImporter.findCommonPathPrefix
findCommonPathPrefix(paths) ==
    LET all == [k \in DOMAIN paths |-> Split(Trim(paths[k], "/"), "/")]
        pathSegments == SelectSeqBy(all, { segs \in Range(all) : segs[1] # "" })
        minLength == CHOOSE n \in { Len(pathSegments[k]) : k \in DOMAIN pathSegments } :
                        \A k \in DOMAIN pathSegments : n <= Len(pathSegments[k])
    IN  IF Len(paths) = 0 \/ Len(pathSegments) = 0 THEN ""
        ELSE IF Len(CommonSegments(pathSegments, 1, minLength)) > 0
             THEN "/" \o Join(CommonSegments(pathSegments, 1, minLength), "/")
        ELSE ""

\* the first loop of extractBaseURL: "" when no variable supplies a path
RECURSIVE VariableBasePath(_)
VariableBasePath(variables) ==
    IF Len(variables) = 0 THEN ""
    ELSE LET key == ToLower(variables[1].Key)
             parsed == URLParse(variables[1].Value)
         IN  IF (Contains(key, "url") \/ Contains(key, "host") \/ Contains(key, "base"))
                /\ parsed.ok /\ parsed.Path # "" /\ parsed.Path # "/"
             THEN parsed.Path
             ELSE VariableBasePath(Tail(variables))

\* PostmanImporter.extractBaseURL
PostmanExtractBaseURL(collection) ==
    LET items == getAllRequests(collection.Item)
        firstFive == SubSeq(items, 1, IF Len(items) < 5 THEN Len(items) ELSE 5)
        found == [k \in DOMAIN firstFive |->
                    IF IsNil(firstFive[k].Request[1].URL) THEN ""
                    ELSE extractPath(firstFive[k].Request[1].URL[1], collection)]
        paths == SelectSeqBy(found, Range(found) \ { "" })
    IN  IF VariableBasePath(collection.Variable) # ""
        THEN VariableBasePath(collection.Variable)
        ELSE IF Len(paths) > 0 /\ findCommonPathPrefix(paths) # ""
             THEN findCommonPathPrefix(paths)
        ELSE "/api/v1"

\* the text from position i on has the shape: "d" stands for a digit, every
\* other character for itself
MatchShape(s, i, shape) ==
    /\ i + Len(shape) - 1 <= Len(s)
    /\ \A k \in 1..Len(shape) :
          IF SubSeq(shape, k, k) = "d" THEN Contains(Digits, SubSeq(s, i + k - 1, i + k - 1))
          ELSE SubSeq(s, i + k - 1, i + k - 1) = SubSeq(shape, k, k)

\* PostmanImporter.looksLikeUUID: 8-4-4-4-12 hex digits of the lower-cased text
looksLikeUUID(s) ==
    /\ Len(s) = 36
    /\ \A k \in 1..36 :
          IF k \in { 9, 14, 19, 24 } THEN SubSeq(s, k, k) = "-"
          ELSE Contains("abcdef" \o Digits, SubSeq(ToLower(s), k, k))

\* PostmanImporter.looksLikeDateTime: one of three shapes anywhere in the text
looksLikeDateTime(s) ==
    \E i \in 1..Len(s) :
        \/ MatchShape(s, i, "dddd-dd-ddTdd:dd:dd")
        \/ MatchShape(s, i, "dddd-dd-dd dd:dd:dd")
        \/ MatchShape(s, i, "dddd/dd/dd")

\* PostmanImporter.inferJSONFieldType: json.Unmarshal hands every number
\* over as a float64
inferJSONFieldType(value) ==
    CASE value.kind = "string" ->
            IF looksLikeUUID(value.str) THEN "uuid"
            ELSE IF looksLikeDateTime(value.str) THEN "datetime"
            ELSE "string"
      [] value.kind = "number" -> "number"
      [] value.kind = "bool" -> "boolean"
      [] value.kind = "array" -> "array"
      [] value.kind = "object" -> "object"
      [] OTHER -> "string"

parseJSONBodyNullFails(rawBody) ==
    IF IsNil(rawBody.json) THEN [f \in { "body" } |-> "object, required"]
    ELSE [key \in DOMAIN rawBody.json[1] |->
            inferJSONFieldType(rawBody.json[1][key]) \o ", required"]

\* PostmanImporter.parseJSONBody
parseJSONBody(rawBody) ==
    IF rawBody.null THEN EmptyMap
    ELSE IF IsNil(rawBody.json) THEN [f \in { "body" } |-> "object, required"]
    ELSE [key \in DOMAIN rawBody.json[1] |->
            inferJSONFieldType(rawBody.json[1][key]) \o ", required"]

\* the keys a loop over parameters writes: those of the enabled ones
EnabledKeys(params) == { params[i].Key : i \in { j \in DOMAIN params : ~params[j].Disabled } }

\* the parameter whose entry the loop leaves under the key: the last enabled
KeyedLast(params, key) ==
    params[CHOOSE i \in DOMAIN params :
              /\ params[i].Key = key /\ ~params[i].Disabled
              /\ \A j \in DOMAIN params :
                    (params[j].Key = key /\ ~params[j].Disabled) => j <= i]

\* fieldType of an urlencoded or query parameter
ValueFieldType(param) == IF param.Value # "" THEN "string, required" ELSE "string, optional"

\* fieldType of a formdata parameter
FormFieldType(param) ==
    (IF param.Type = "file" THEN "file" ELSE "string")
        \o (IF param.Value # "" THEN ", required" ELSE ", optional")

\* the map the loop over urlencoded or query parameters fills
ValueFields(params) ==
    [key \in EnabledKeys(params) |-> ValueFieldType(KeyedLast(params, key))]

\* the map the loop over formdata parameters fills
FormFields(params) ==
    [key \in EnabledKeys(params) |-> FormFieldType(KeyedLast(params, key))]

\* PostmanImporter.parseRequestBody
parseRequestBody(body) ==
    CASE body.Mode = "raw" -> IF body.Raw.empty THEN EmptyMap ELSE parseJSONBody(body.Raw)
      [] body.Mode = "urlencoded" ->
            ValueFields(body.URLEncoded)
      [] body.Mode = "formdata" ->
            FormFields(body.FormData)
      [] OTHER -> EmptyMap

\* endpoint.Request as convertRequest leaves it
ConvertRequestFields(request, method) ==
    LET hasBody == ~IsNil(request.Body) /\ method \notin { "GET", "DELETE" }
        params == IF IsNil(request.URL) THEN EmptyMap
                  ELSE [key \in { request.URL[1].Variable[i].Key :
                                    i \in DOMAIN request.URL[1].Variable } |-> "string, required"]
        query == IF IsNil(request.URL) THEN EmptyMap
                 ELSE ValueFields(request.URL[1].Query)
        body == IF hasBody THEN parseRequestBody(request.Body[1]) ELSE EmptyMap
    IN  IF IsNil(request.URL) /\ ~hasBody THEN Nil
        ELSE Some(EndpointRequest(Some(params), Some(query), Some(body)))

\* PostmanImporter.convertRequest
convertRequest(item, collection) ==
    LET request == item.Request[1]
        method == ToUpper(request.Method)
    IN  Endpoint(IF IsNil(request.URL) THEN "" ELSE extractPath(request.URL[1], collection),
                 method,
                 IF ~IsNil(request.Description) /\ request.Description[1] # ""
                 THEN request.Description[1] ELSE item.Name,
                 requestRequiresAuth(request, collection),
                 ConvertRequestFields(request, method),
                 Some(EndpointResponse(IF method = "POST" THEN 201
                                       ELSE IF method = "DELETE" THEN 204 ELSE 200,
                                       Some(EmptyMap))),
                 << >>)

RECURSIVE processItemsWithChildren(_, _)
processItemsWithChildren(items, collection) ==
    IF Len(items) = 0 THEN << >>
    ELSE (IF ~IsNil(items[1].Request) THEN << convertRequest(items[1], collection) >>
          ELSE << >>)
         \o processItemsWithChildren(items[1].Item, collection)
         \o processItemsWithChildren(Tail(items), collection)

\* PostmanImporter.processItems
RECURSIVE processItems(_, _)
processItems(items, collection) ==
    IF Len(items) = 0 THEN << >>
    ELSE (IF ~IsNil(items[1].Request) THEN << convertRequest(items[1], collection) >>
          ELSE IF Len(items[1].Item) > 0 THEN processItems(items[1].Item, collection)
          ELSE << >>)
         \o processItems(Tail(items), collection)

\* PostmanImporter.Import after the collection is parsed and its schema checked
PostmanConvert(collection) ==
    API(PostmanExtractBaseURL(collection), PostmanDetermineAuthType(collection),
        processItems(collection.Item, collection))

-----------------------------------------------------------------------------
(* The file named on the command line.  Its bytes are `text`; what each      *)
(* parser makes of them is a nilable view: nil when the parser fails.        *)

SrcFile(name, readable, text, asOpenAPI, asAPI, asPostman) ==
    [exists |-> TRUE, name |-> name, readable |-> readable, text |-> text,
     asOpenAPI |-> asOpenAPI, asAPI |-> asAPI, asPostman |-> asPostman]

MissingSrc ==
    [exists |-> FALSE, name |-> "", readable |-> FALSE, text |-> "",
     asOpenAPI |-> Nil, asAPI |-> Nil, asPostman |-> Nil]

-----------------------------------------------------------------------------
(* ImporterFactory (internal/importers/interface.go) *)

DetectFormatPostmanFirst(file) ==
    IF Ext(file.name) = ".json"
    THEN IF ~file.readable THEN [err |-> "failed to read file", format |-> ""]
         ELSE IF Contains(file.text, "postman") \/ Contains(file.text, "collection")
              THEN [err |-> "", format |-> "postman"]
         ELSE [err |-> "", format |-> "openapi"]
    ELSE IF Ext(file.name) \in { ".yaml", ".yml" }
         THEN [err |-> "", format |-> "openapi"]
    ELSE [err |-> "unable to detect format from extension", format |-> ""]

\* ImporterFactory.DetectFormat: the format tag, or an error
DetectFormat(file) ==
    IF Ext(file.name) = ".json"
    THEN IF ~file.readable THEN [err |-> "failed to read file", format |-> ""]
         ELSE IF Contains(file.text, "openapi") \/ Contains(file.text, "swagger")
              THEN [err |-> "", format |-> "openapi"]
         ELSE IF Contains(file.text, "postman") \/ Contains(file.text, "collection")
              THEN [err |-> "", format |-> "postman"]
         ELSE [err |-> "", format |-> "openapi"]
    ELSE IF Ext(file.name) \in { ".yaml", ".yml" }
         THEN [err |-> "", format |-> "openapi"]
    ELSE [err |-> "unable to detect format from extension", format |-> ""]

\* ImporterFactory.CreateImporter: the importer type, or "" for an error
CreateImporter(fmt) ==
    IF fmt \in { "openapi", "swagger", "json", "yaml", "yml" } THEN "OpenAPIImporter"
    ELSE IF fmt = "postman" THEN "PostmanImporter"
    ELSE IF fmt = "architect" THEN "ArchitectImporter"
    ELSE ""

-----------------------------------------------------------------------------
(* Import and Validate of the three importers *)

\* OpenAPIImporter.Import: every API it can return; the empty set is an error
OpenAPIImport(file) ==
    IF ~file.readable THEN {}
    ELSE IF Ext(file.name) \notin { ".json", ".yaml", ".yml" } THEN {}
    ELSE IF IsNil(file.asOpenAPI) THEN {}
    ELSE OpenAPIConvert(file.asOpenAPI[1])

\* PostmanImporter.Import: the empty set is an error
PostmanImport(file) ==
    IF ~file.readable THEN {}
    ELSE IF IsNil(file.asPostman) THEN {}
    ELSE IF file.asPostman[1].Info.Schema = "" THEN {}
    ELSE { PostmanConvert(file.asPostman[1]) }

\* parser.ParseAPIYAML: yaml.Unmarshal into a zero models.API
ParseAPIYAML(file) ==
    IF ~file.readable THEN {}
    ELSE IF IsNil(file.asAPI) THEN {}
    ELSE { YamlUnmarshalAPI(file.asAPI[1], API("", "", << >>)) }

\* ArchitectImporter.Import
ArchitectImport(file) == ParseAPIYAML(file)

\* importer.Import(filename)
Import(importer, file) ==
    IF importer = "OpenAPIImporter" THEN OpenAPIImport(file)
    ELSE IF importer = "PostmanImporter" THEN PostmanImport(file)
    ELSE ArchitectImport(file)

\* importer.Validate(api): "" or the error
Validate(importer, api) ==
    IF importer = "ArchitectImporter" THEN ValidateArchitect(api)
    ELSE ValidateEndpoints(api)

-----------------------------------------------------------------------------
(* Inputs of the merge: endpoints that share or differ in method and path *)

FieldsId == [id |-> "uuid, required"]

FieldsName == [name |-> "string, required"]

MergePool ==
    { Endpoint("/a", "GET", "old", FALSE, Nil,
               Some(EndpointResponse(200, Some(FieldsId))), << >>),
      Endpoint("/a", "GET", "new", TRUE,
               Some(EndpointRequest(Nil, Nil, Some(FieldsName))),
               Some(EndpointResponse(200, Nil)),
               << ErrorResponse(404, "NOT_FOUND", "no such item") >>),
      Endpoint("/a", "POST", "old", TRUE,
               Some(EndpointRequest(Nil, Nil, Some(FieldsName))),
               Some(EndpointResponse(201, Some(FieldsId))), << >>),
      Endpoint("/b:c", "GET", "old", FALSE, Nil, Nil, << >>) }

\* the existing and the imported endpoint lists of one merge
MergeEndpointLists ==
    SeqsUpTo(MergePool, MaxMergeEndpoints) \X SeqsUpTo(MergePool, MaxMergeEndpoints)

\* base_url and auth_type keys of an existing api.yaml
ExistingBaseURLs == { Nil, Some(""), Some("/old") }

ExistingAuthTypes == { Nil, Some("bearer") }

ImportedBaseURLs == { "", DefaultBaseURL, "/old" }

ImportedAuthTypes == { "none", "bearer" }

-----------------------------------------------------------------------------
(* runImport: the merge stage *)

\* merge == true: finalAPI, err = mergeWithExisting(importedAPI)
MergeStage ==
    /\ pc = "merge"
    /\ mergeFlag
    /\ trace' = Append(trace, "merge")
    /\ LET loaded == LoadExisting(apiYaml)
       IN  IF loaded.err # ""
           THEN /\ err' = "merge"
                /\ pc' = "done"
                /\ UNCHANGED << finalAPI, existingAPI >>
           ELSE /\ \E merged \in MergeResults(loaded.api, importedAPI[1]) :
                        finalAPI' = Some(merged)
                /\ existingAPI' = Some(loaded.api)
                /\ pc' = "guard"
                /\ err' = err
    /\ UNCHANGED << src, format, mergeFlag, overwriteFlag, archDir, apiYaml,
                    projectMd, rulesFile, importedAPI, apiYamlBefore >>
    /\ UNCHANGED exceptImport

\* merge == false: finalAPI = importedAPI
ReplaceStage ==
    /\ pc = "merge"
    /\ ~mergeFlag
    /\ finalAPI' = importedAPI
    /\ pc' = "guard"
    /\ UNCHANGED << src, format, mergeFlag, overwriteFlag, archDir, apiYaml,
                    projectMd, rulesFile, importedAPI, err, trace, apiYamlBefore,
                    existingAPI >>
    /\ UNCHANGED exceptImport

-----------------------------------------------------------------------------
(* Values of the variables a specification does not use *)

RTIdle ==
    /\ rtA = API("", "", << >>)
    /\ rtDoc = Nil
    /\ rtAPI = Nil
    /\ rtpc = "idle"

PMIdle ==
    /\ pmCollection = PostmanCollection("", << >>, Nil, << >>)
    /\ pmAPI = Nil
    /\ pmpc = "idle"

AlIdle ==
    /\ alHeap = EmptyMap
    /\ alExisting = API("", "", << >>)
    /\ alImported = API("", "", << >>)
    /\ alMerged = Nil
    /\ alpc = "idle"

InIdle ==
    /\ inFlags = EmptyMap
    /\ inDirExists = FALSE
    /\ inPrompts = << >>
    /\ inProject = Nil
    /\ inpc = "idle"

\* the watch loop waiting for its first event, no timer pending
WIdle ==
    /\ wNow = 0
    /\ wTimer = Nil
    /\ wRunning = 0
    /\ wWriting = 0
    /\ wEvent = Nil
    /\ wEvents = 0
    /\ wLast = Nil
    /\ wBursts = 0
    /\ wSyncs = 0

-----------------------------------------------------------------------------
(* SpecMerge: mergeWithExisting applied to every existing api.yaml and      *)
(* imported API of the bounded input sets                                    *)

InitMerge ==
    /\ pc = "merge"
    /\ mergeFlag = TRUE
    /\ \E el \in MergeEndpointLists, ib \in ImportedBaseURLs, ia \in ImportedAuthTypes :
          /\ importedAPI = Some(API(ib, ia, el[2]))
          /\ \/ \E eb \in ExistingBaseURLs, ea \in ExistingAuthTypes :
                    apiYaml = File("ok", YamlDoc(eb, ea, Some(el[1])))
             \/ /\ el[1] = << >>
                /\ apiYaml = MissingFile
    /\ src = MissingSrc
    /\ format = ""
    /\ overwriteFlag = FALSE
    /\ archDir = TRUE
    /\ projectMd = TRUE
    /\ rulesFile = Nil
    /\ finalAPI = Nil
    /\ err = ""
    /\ trace = << >>
    /\ apiYamlBefore = apiYaml
    /\ existingAPI = Nil
    /\ RTIdle
    /\ PMIdle
    /\ AlIdle
    /\ InIdle
    /\ WIdle

NextMerge == MergeStage

SpecMerge == InitMerge /\ [][NextMerge]_vars

-----------------------------------------------------------------------------
(* Properties of the merge *)

\* a merge has returned an API
MergeDone == pc = "guard" /\ mergeFlag /\ ~IsNil(existingAPI) /\ ~IsNil(finalAPI)

\* the (method, path) pair of an endpoint
MethodPath(e) == << e.Method, e.Path >>

MethodPaths(endpoints) == { MethodPath(endpoints[i]) : i \in DOMAIN endpoints }

\* the endpoints a list holds under a (method, path) pair
Under(endpoints, mp) == { e \in Range(endpoints) : MethodPath(e) = mp }

\* C1: after a merge, every (method, path) pair that occurs in the imported
\* API is held by the merged API with the field values (description, auth,
\* request, response, errors) of an imported endpoint of that pair, never
\* with those of the existing endpoint.
ThmC1MergePrecedence ==
    MergeDone =>
        \A mp \in MethodPaths(importedAPI[1].Endpoints) :
            /\ Under(finalAPI[1].Endpoints, mp) # {}
            /\ Under(finalAPI[1].Endpoints, mp) \subseteq Under(importedAPI[1].Endpoints, mp)

WitC1MergePrecedence ==
    /\ MergeDone
    /\ \E mp \in MethodPaths(importedAPI[1].Endpoints) :
          /\ Under(existingAPI[1].Endpoints, mp) # {}
          /\ Under(existingAPI[1].Endpoints, mp) \cap Under(importedAPI[1].Endpoints, mp) = {}
          /\ \E e \in Under(existingAPI[1].Endpoints, mp), m \in Under(finalAPI[1].Endpoints, mp) :
                /\ e.Description # m.Description
                /\ e.Auth # m.Auth
                /\ e.Request # m.Request
                /\ e.Response # m.Response
                /\ e.Errors # m.Errors

\* C2: after a merge, the (method, path) pairs of the merged API are exactly
\* those of the existing API and of the imported API together, and no two
\* entries of the merged list have the same pair.
ThmC2MergeDedup ==
    MergeDone =>
        /\ MethodPaths(finalAPI[1].Endpoints) =
              MethodPaths(existingAPI[1].Endpoints) \cup MethodPaths(importedAPI[1].Endpoints)
        /\ \A i, j \in DOMAIN finalAPI[1].Endpoints :
              MethodPath(finalAPI[1].Endpoints[i]) = MethodPath(finalAPI[1].Endpoints[j]) => i = j

WitC2MergeDedup ==
    /\ MergeDone
    /\ MethodPaths(existingAPI[1].Endpoints) \cap MethodPaths(importedAPI[1].Endpoints) # {}
    /\ Len(finalAPI[1].Endpoints) = 2
    /\ Len(existingAPI[1].Endpoints) + Len(importedAPI[1].Endpoints) = 3
    /\ \E e1, e2 \in Range(finalAPI[1].Endpoints) : e1.Path = e2.Path /\ e1.Method # e2.Method

\* the last endpoint a list holds under a (method, path) pair
LastUnder(endpoints, mp) ==
    endpoints[CHOOSE i \in DOMAIN endpoints :
                /\ MethodPath(endpoints[i]) = mp
                /\ \A j \in DOMAIN endpoints : MethodPath(endpoints[j]) = mp => j <= i]

\* no two entries of the list have the same (method, path) pair
DistinctKeys(endpoints) ==
    \A i, j \in DOMAIN endpoints :
        MethodPath(endpoints[i]) = MethodPath(endpoints[j]) => i = j

\* the API is merged with itself
SelfMerge == MergeDone /\ existingAPI[1] = importedAPI[1]

\* C3 as stated: Merge(X, X) has the BaseURL, the AuthType and, order aside,
\* the endpoints of X.
CexC3MergeIdempotent ==
    SelfMerge =>
        /\ finalAPI[1].BaseURL = importedAPI[1].BaseURL
        /\ finalAPI[1].AuthType = importedAPI[1].AuthType
        /\ MethodPaths(finalAPI[1].Endpoints) = MethodPaths(importedAPI[1].Endpoints)
        /\ \A mp \in MethodPaths(importedAPI[1].Endpoints) :
              Under(finalAPI[1].Endpoints, mp) = Under(importedAPI[1].Endpoints, mp)

\* C3 (amended): Merge(X, X) has the BaseURL, the AuthType and the set of
\* (method, path) pairs of X and holds, for every pair, the field values of
\* the last endpoint of X with that pair; it equals X, order aside, whenever
\* no two endpoints of X have the same pair.
ThmC3MergeIdempotent ==
    SelfMerge =>
        /\ finalAPI[1].BaseURL = importedAPI[1].BaseURL
        /\ finalAPI[1].AuthType = importedAPI[1].AuthType
        /\ MethodPaths(finalAPI[1].Endpoints) = MethodPaths(importedAPI[1].Endpoints)
        /\ \A mp \in MethodPaths(importedAPI[1].Endpoints) :
              Under(finalAPI[1].Endpoints, mp) = { LastUnder(importedAPI[1].Endpoints, mp) }
        /\ DistinctKeys(importedAPI[1].Endpoints) =>
              /\ Range(finalAPI[1].Endpoints) = Range(importedAPI[1].Endpoints)
              /\ Len(finalAPI[1].Endpoints) = Len(importedAPI[1].Endpoints)

\* an API with two different endpoints under one pair was merged with itself
WitC3MergeIdempotent ==
    /\ SelfMerge
    /\ Len(importedAPI[1].Endpoints) = 2
    /\ ~DistinctKeys(importedAPI[1].Endpoints)
    /\ importedAPI[1].Endpoints[1] # importedAPI[1].Endpoints[2]
    /\ finalAPI[1].Endpoints = << importedAPI[1].Endpoints[2] >>
    /\ finalAPI[1].BaseURL = importedAPI[1].BaseURL

\* C6: the merged BaseURL is the imported one when that is non-empty and
\* not "/api/v1", and the existing one in every other case.
ThmC6MergeBaseURL ==
    MergeDone =>
        finalAPI[1].BaseURL =
            IF importedAPI[1].BaseURL \notin { "", "/api/v1" }
            THEN importedAPI[1].BaseURL
            ELSE existingAPI[1].BaseURL

WitC6MergeBaseURL ==
    /\ MergeDone
    /\ importedAPI[1].BaseURL = "/api/v1"
    /\ existingAPI[1].BaseURL = "/old"
    /\ finalAPI[1].BaseURL = "/old"

-----------------------------------------------------------------------------
(* SpecRT: an API model is exported with "export --format openapi" and the   *)
(* exported openapi.json is imported again                                   *)

FieldsA == [id |-> "uuid, required", name |-> "string, required", age |-> "integer, optional"]

FieldsB == [ok |-> "boolean, required", tags |-> "array, optional",
            meta |-> "object, required", at |-> "datetime, optional"]

FieldsC == [score |-> "number, optional", upload |-> "file, required"]

FieldsHint == [email |-> "string, required, email"]

RTPool ==
    { Endpoint("/a", "GET", "list", FALSE, Nil,
               Some(EndpointResponse(200, Some(FieldsA))), << >>),
      Endpoint("/a", "GET", "search", TRUE,
               Some(EndpointRequest(Nil, Some([q |-> "string, optional"]), Nil)),
               Some(EndpointResponse(200, Some(FieldsB))),
               << ErrorResponse(404, "NOT_FOUND", "no such item") >>),
      Endpoint("/a", "POST", "create", TRUE,
               Some(EndpointRequest(Nil, Nil, Some(FieldsA))),
               Some(EndpointResponse(201, Some(FieldsB))), << >>),
      Endpoint("/b/{id}", "PUT", "update", FALSE,
               Some(EndpointRequest(Some([id |-> "uuid, required"]), Nil, Some(FieldsB))),
               Some(EndpointResponse(200, Nil)), << >>),
      Endpoint("/b/{id}", "DELETE", "remove", TRUE, Nil, Nil,
               << ErrorResponse(401, "UNAUTHORIZED", "login first") >>),
      Endpoint("/b/{id}", "POST", "upload", FALSE,
               Some(EndpointRequest(Nil, Nil, Some(FieldsC))),
               Some(EndpointResponse(201, Some(FieldsHint))), << >>),
      Endpoint("/c", "GET", "moved", FALSE, Nil,
               Some(EndpointResponse(302, Some(FieldsName))), << >>) }

RTBaseURLs == { "/api/v1", "/v2", "api/v1", "https://api.example.com/v2" }

RTAuthTypes == { "none", "bearer" }

InitImportIdle ==
    /\ pc = "idle"
    /\ src = MissingSrc
    /\ format = ""
    /\ mergeFlag = FALSE
    /\ overwriteFlag = FALSE
    /\ archDir = TRUE
    /\ apiYaml = MissingFile
    /\ projectMd = TRUE
    /\ rulesFile = Nil
    /\ importedAPI = Nil
    /\ finalAPI = Nil
    /\ err = ""
    /\ trace = << >>
    /\ apiYamlBefore = MissingFile
    /\ existingAPI = Nil

InitRT ==
    /\ InitImportIdle
    /\ PMIdle
    /\ AlIdle
    /\ InIdle
    /\ WIdle
    /\ \E b \in RTBaseURLs, a \in RTAuthTypes, el \in SeqsUpTo(RTPool, MaxRTEndpoints) :
          rtA = API(b, a, el)
    /\ rtDoc = Nil
    /\ rtAPI = Nil
    /\ rtpc = "export"

\* runExport, format "openapi": content = exportOpenAPI(api), written to openapi.json
RunExportOpenAPI ==
    /\ rtpc = "export"
    /\ rtDoc' = Some(exportOpenAPI(rtA))
    /\ rtpc' = "import"
    /\ UNCHANGED << rtA, rtAPI >>
    /\ UNCHANGED exceptRT

\* OpenAPIImporter.Import of the exported .json file
ReimportOpenAPI ==
    /\ rtpc = "import"
    /\ \E api \in OpenAPIConvert(UnmarshalOpenAPI(rtDoc[1])) : rtAPI' = Some(api)
    /\ rtpc' = "done"
    /\ UNCHANGED << rtA, rtDoc >>
    /\ UNCHANGED exceptRT

NextRT == RunExportOpenAPI \/ ReimportOpenAPI

SpecRT == InitRT /\ [][NextRT]_vars

-----------------------------------------------------------------------------
(* Properties of the OpenAPI round trip *)

RTDone == rtpc = "done" /\ ~IsNil(rtAPI)

\* the nilable field maps of an endpoint
RequestBodyOf(e) == IF IsNil(e.Request) THEN Nil ELSE e.Request[1].Body

ResponseBodyOf(e) == IF IsNil(e.Response) THEN Nil ELSE e.Response[1].Body

FieldMapsOf(e) ==
    { RequestBodyOf(e), ResponseBodyOf(e) }
    \cup (IF IsNil(e.Request) THEN {} ELSE { e.Request[1].Params, e.Request[1].Query })

\* the type tag of a field descriptor "<type>, required|optional[, <validation>]"
TypeTag(def) == TrimSpace(DescriptorParts(def)[1])

\* no field descriptor of the API carries a validation hint
NoValidationHints(api) ==
    \A e \in Range(api.Endpoints) : \A m \in FieldMapsOf(e) :
        IsNil(m) \/ \A f \in DOMAIN m[1] : Len(DescriptorParts(m[1][f])) <= 2

\* the auth flags an API holds under a (method, path) pair
AuthFlags(api, mp) == { e.Auth : e \in Under(api.Endpoints, mp) }

TagAfterRoundTrip(tag) ==
    IF tag \in { "string", "integer", "boolean", "array", "object" } THEN tag
    ELSE IF tag \in { "uuid", "datetime" } THEN "string"
    ELSE ""

\* the nilable field map `got` has every field of the nilable field map
\* `want`, with the type tag the round trip is to leave
FieldsKept(want, got) ==
    IsNil(want) \/
        \A f \in DOMAIN want[1] :
            /\ ~IsNil(got)
            /\ f \in DOMAIN got[1]
            /\ TagAfterRoundTrip(TypeTag(want[1][f])) \in { "", TypeTag(got[1][f]) }

SuccessExported(e) ==
    IsNil(e.Response) \/
        /\ HasPrefix(Itoa(e.Response[1].Status), "2")
        /\ \A i \in DOMAIN e.Errors : e.Errors[i].Status # e.Response[1].Status

-----------------------------------------------------------------------------
(* runImport (import command), stage by stage *)

\* os.Stat(filename), then os.Stat(".architect")
StatStage ==
    /\ pc = "stat"
    /\ trace' = Append(trace, "stat")
    /\ IF ~src.exists THEN err' = "stat" /\ pc' = "done"
       ELSE IF ~archDir THEN err' = "archdir" /\ pc' = "done"
       ELSE err' = err /\ pc' = (IF format = "" THEN "detect" ELSE "create")
    /\ UNCHANGED << src, format, mergeFlag, overwriteFlag, archDir, apiYaml,
                    projectMd, rulesFile, importedAPI, finalAPI, apiYamlBefore,
                    existingAPI >>
    /\ UNCHANGED exceptImport

\* format == "": format, err = factory.DetectFormat(filename)
DetectStage ==
    /\ pc = "detect"
    /\ trace' = Append(trace, "detect")
    /\ LET detected == DetectFormat(src)
       IN  IF detected.err # ""
           THEN err' = "detect" /\ pc' = "done" /\ format' = format
           ELSE err' = err /\ pc' = "create" /\ format' = detected.format
    /\ UNCHANGED << src, mergeFlag, overwriteFlag, archDir, apiYaml, projectMd,
                    rulesFile, importedAPI, finalAPI, apiYamlBefore, existingAPI >>
    /\ UNCHANGED exceptImport

\* importer, err := factory.CreateImporter(format)
CreateStage ==
    /\ pc = "create"
    /\ trace' = Append(trace, "create")
    /\ IF CreateImporter(format) = ""
       THEN err' = "create" /\ pc' = "done"
       ELSE err' = err /\ pc' = "import"
    /\ UNCHANGED << src, format, mergeFlag, overwriteFlag, archDir, apiYaml,
                    projectMd, rulesFile, importedAPI, finalAPI, apiYamlBefore,
                    existingAPI >>
    /\ UNCHANGED exceptImport

\* importedAPI, err := importer.Import(filename)
ImportStage ==
    /\ pc = "import"
    /\ trace' = Append(trace, "import")
    /\ LET apis == Import(CreateImporter(format), src)
       IN  IF apis = {}
           THEN err' = "import" /\ pc' = "done" /\ importedAPI' = importedAPI
           ELSE /\ \E api \in apis : importedAPI' = Some(api)
                /\ err' = err
                /\ pc' = "validate"
    /\ UNCHANGED << src, format, mergeFlag, overwriteFlag, archDir, apiYaml,
                    projectMd, rulesFile, finalAPI, apiYamlBefore, existingAPI >>
    /\ UNCHANGED exceptImport

ValidateStageIgnoreError ==
    /\ pc = "validate"
    /\ trace' = Append(trace, "validate")
    /\ err' = err /\ pc' = "merge"
    /\ UNCHANGED << src, format, mergeFlag, overwriteFlag, archDir, apiYaml,
                    projectMd, rulesFile, importedAPI, finalAPI, apiYamlBefore,
                    existingAPI >>
    /\ UNCHANGED exceptImport

\* err := importer.Validate(importedAPI)
ValidateStage ==
    /\ pc = "validate"
    /\ trace' = Append(trace, "validate")
    /\ IF Validate(CreateImporter(format), importedAPI) # ""
       THEN err' = "validate" /\ pc' = "done"
       ELSE err' = err /\ pc' = "merge"
    /\ UNCHANGED << src, format, mergeFlag, overwriteFlag, archDir, apiYaml,
                    projectMd, rulesFile, importedAPI, finalAPI, apiYamlBefore,
                    existingAPI >>
    /\ UNCHANGED exceptImport

GuardStageNeverCancels ==
    /\ pc = "guard"
    /\ trace' = Append(trace, "guard")
    /\ err' = err /\ pc' = "write"
    /\ UNCHANGED << src, format, mergeFlag, overwriteFlag, archDir, apiYaml,
                    projectMd, rulesFile, importedAPI, finalAPI, apiYamlBefore,
                    existingAPI >>
    /\ UNCHANGED exceptImport

\* !overwrite, api.yaml exists and !merge: "file exists, operation cancelled"
GuardStage ==
    /\ pc = "guard"
    /\ trace' = Append(trace, "guard")
    /\ IF ~overwriteFlag /\ apiYaml.st # "missing" /\ ~mergeFlag
       THEN err' = "exists" /\ pc' = "done"
       ELSE err' = err /\ pc' = "write"
    /\ UNCHANGED << src, format, mergeFlag, overwriteFlag, archDir, apiYaml,
                    projectMd, rulesFile, importedAPI, finalAPI, apiYamlBefore,
                    existingAPI >>
    /\ UNCHANGED exceptImport

\* writeAPISpec(finalAPI), then writeBasicProjectMd when project.md is
\* missing.  os.WriteFile can fail on a file the process cannot open.
WriteStage ==
    /\ pc = "write"
    /\ trace' = Append(trace, "write")
    /\ \E written \in (IF apiYaml.st = "unreadable" THEN BOOLEAN ELSE { TRUE }) :
          IF written
          THEN /\ apiYaml' = File("ok", YamlMarshalAPI(finalAPI[1]))
               /\ projectMd' = TRUE
               /\ err' = err
               /\ pc' = "sync"
          ELSE /\ err' = "write"
               /\ pc' = "done"
               /\ UNCHANGED << apiYaml, projectMd >>
    /\ UNCHANGED << src, format, mergeFlag, overwriteFlag, archDir, rulesFile,
                    importedAPI, finalAPI, apiYamlBefore, existingAPI >>
    /\ UNCHANGED exceptImport

\* return runSync(nil, []string{})
SyncStage ==
    /\ pc = "sync"
    /\ trace' = Append(trace, "sync")
    /\ pc' = "done"
    /\ IF ~archDir \/ ~projectMd \/ apiYaml.st # "ok"
       THEN err' = "sync" /\ rulesFile' = rulesFile
       ELSE /\ err' = err
            /\ rulesFile' = Some(YamlUnmarshalAPI(apiYaml.doc, API("", "", << >>)))
    /\ UNCHANGED << src, format, mergeFlag, overwriteFlag, archDir, apiYaml,
                    projectMd, importedAPI, finalAPI, apiYamlBefore, existingAPI >>
    /\ UNCHANGED exceptImport

-----------------------------------------------------------------------------
(* Spec: one run of `architect import` over a pool of source files, flags    *)
(* and states of .architect/                                                 *)

\* GET /users/{id}, secured, answering 200 with an object schema
UserSchema ==
    [type |-> "object", properties |-> [id |-> [type |-> "string"]], required |-> { "id" }]

UserOperation ==
    OpenAPIOperation("Get user", "", << >>, Nil,
                     "200" :> OpenAPIResponse(ApplicationJSON :> OpenAPIMediaType(Some(UserSchema))),
                     << [bearerAuth |-> << >>] >>)

\* an OpenAPI document with one operation
UsersOpenAPI ==
    OpenAPI(<< [URL |-> "https://api.example.com/v2"] >>,
            "/users/{id}" :> ("get" :> UserOperation))

\* an OpenAPI document whose paths object has an empty key
EmptyPathOpenAPI == OpenAPI(<< >>, "" :> ("get" :> UserOperation))

\* what the OpenAPI struct holds of a document with none of its keys
BlankOpenAPI == OpenAPI(<< >>, EmptyMap)

\* a native api.yaml
NativeDoc ==
    YamlDoc(Some("/native"), Some("none"),
            Some(<< Endpoint("/a", "GET", "new", FALSE, Nil, Nil, << >>) >>))

\* a Postman collection without items, with collection-level auth or without
EmptyCollection(auth) ==
    PostmanCollection("https://schema.getpostman.com/json/collection/v2.1.0/collection.json",
                      << >>, auth, << >>)

\* the files: name, bytes, and what each parser makes of the bytes
SrcContents ==
    { SrcFile("openapi.json", TRUE, "{openapi,paths}",
              Some(UsersOpenAPI), Some(NoDoc), Some(PostmanCollection("", << >>, Nil, << >>))),
      SrcFile("openapi.yaml", TRUE, "openapi: paths:",
              Some(UsersOpenAPI), Some(NoDoc), Nil),
      SrcFile("emptypath.yml", TRUE, "openapi: paths: '':",
              Some(EmptyPathOpenAPI), Some(NoDoc), Nil),
      SrcFile("collection.json", TRUE, "{info:{schema:collection}}",
              Some(BlankOpenAPI), Some(NoDoc), Some(EmptyCollection(Nil))),
      SrcFile("secured.postman.json", TRUE, "{info:{schema:postman},auth:{type:OAuth2}}",
              Some(BlankOpenAPI), Some(NoDoc), Some(EmptyCollection(Some(PostmanAuth("OAuth2"))))),
      SrcFile("api.yaml", TRUE, "base_url: /native",
              Some(BlankOpenAPI), Some(NativeDoc), Nil),
      SrcFile("broken.json", TRUE, "{swagger",
              Nil, Nil, Nil),
      SrcFile("notes.txt", TRUE, "openapi notes",
              Nil, Nil, Nil) }

\* every file also as one the process may not read, and no file at all
SrcFiles ==
    SrcContents \cup { [f EXCEPT !.readable = FALSE] : f \in SrcContents } \cup { MissingSrc }

\* --format
FormatFlags == { "", "openapi", "postman", "architect", "yaml", "graphql" }

\* .architect/api.yaml before the run
ApiYamlFiles ==
    { MissingFile, UnreadableFile, MalformedFile,
      File("ok", YamlDoc(Some("/old"), Some("bearer"),
                         Some(<< Endpoint("/a", "GET", "old", TRUE, Nil, Nil, << >>) >>))),
      File("ok", NoDoc) }

Init ==
    /\ pc = "stat"
    /\ src \in SrcFiles
    /\ format \in FormatFlags
    /\ mergeFlag \in BOOLEAN
    /\ overwriteFlag \in BOOLEAN
    /\ archDir \in BOOLEAN
    /\ apiYaml \in (IF archDir THEN ApiYamlFiles ELSE { MissingFile })
    /\ projectMd \in (IF archDir THEN BOOLEAN ELSE { FALSE })
    /\ rulesFile = Nil
    /\ importedAPI = Nil
    /\ finalAPI = Nil
    /\ err = ""
    /\ trace = << >>
    /\ apiYamlBefore = apiYaml
    /\ existingAPI = Nil
    /\ RTIdle
    /\ PMIdle
    /\ AlIdle
    /\ InIdle
    /\ WIdle

Next ==
    \/ StatStage
    \/ DetectStage
    \/ CreateStage
    \/ ImportStage
    \/ ValidateStage
    \/ MergeStage
    \/ ReplaceStage
    \/ GuardStage
    \/ WriteStage
    \/ SyncStage

Spec == Init /\ [][Next]_vars

-----------------------------------------------------------------------------
(* SpecDetect: DetectFormat applied to file names and contents built from    *)
(* the fragments it looks for                                                *)

Stems == { "spec", "my.postman", "dir.json/openapi" }

Exts == { ".json", ".yaml", ".yml", ".txt", ".JSON", "" }

Fragments == { "openapi", "swagger", "postman", "collection", "Postman", "{}" }

RECURSIVE Concat(_)
Concat(parts) == IF parts = << >> THEN "" ELSE Head(parts) \o Concat(Tail(parts))

InitDetect ==
    /\ pc = "detect"
    /\ \E stem \in Stems, ext \in Exts, parts \in SeqsUpTo(Fragments, MaxFragments),
          readable \in BOOLEAN :
          src = SrcFile(stem \o ext, readable, Concat(parts), Nil, Nil, Nil)
    /\ format = ""
    /\ mergeFlag = FALSE
    /\ overwriteFlag = FALSE
    /\ archDir = TRUE
    /\ apiYaml = MissingFile
    /\ projectMd = TRUE
    /\ rulesFile = Nil
    /\ importedAPI = Nil
    /\ finalAPI = Nil
    /\ err = ""
    /\ trace = << "stat" >>
    /\ apiYamlBefore = apiYaml
    /\ existingAPI = Nil
    /\ RTIdle
    /\ PMIdle
    /\ AlIdle
    /\ InIdle
    /\ WIdle

NextDetect == DetectStage

SpecDetect == InitDetect /\ [][NextDetect]_vars

-----------------------------------------------------------------------------
(* Properties of the import run *)

\* the stage has been executed in this run
InTrace(stage) == \E i \in DOMAIN trace : trace[i] = stage

\* stage a was executed, and stage b after it
Before(a, b) == \E i, j \in DOMAIN trace : i < j /\ trace[i] = a /\ trace[j] = b

\* C4: a run that fails in the detect, import or validate stage never
\* reaches the merge step, produces no final API and leaves
\* .architect/api.yaml as it was before the run; and on every run that
\* writes, Validate ran on the imported API after Import and before the
\* merge and the write, and accepted it.
ThmC4FailedImportWritesNothing ==
    /\ err \in { "detect", "import", "validate" } =>
          /\ pc = "done"
          /\ ~InTrace("merge")
          /\ ~InTrace("write")
          /\ IsNil(finalAPI)
          /\ apiYaml = apiYamlBefore
    /\ err = "import" => IsNil(importedAPI)
    /\ InTrace("write") =>
          /\ Before("import", "validate")
          /\ Before("validate", "write")
          /\ InTrace("merge") => Before("validate", "merge")
          /\ ~IsNil(importedAPI)
          /\ Validate(CreateImporter(format), importedAPI) = ""

\* a run over an existing api.yaml, with --merge, whose imported API Validate rejected
WitC4FailedImportWritesNothing ==
    /\ err = "validate"
    /\ mergeFlag
    /\ apiYamlBefore.st = "ok"
    /\ ~IsNil(importedAPI)
    /\ InTrace("validate")

\* C5 as stated: the merge step never ends in an error and always returns
\* an API, whatever the state of the existing .architect/api.yaml.
CexC5MergeNeverFails ==
    InTrace("merge") => (err # "merge" /\ ~IsNil(finalAPI))

\* C5: the merge step ends in an error exactly when the existing
\* .architect/api.yaml is present but unreadable or malformed, and then no
\* API is returned and the file is left as it was; for a missing or
\* well-formed file it returns an API, and for a missing file the baseline
\* is BaseURL=/api/v1, AuthType=none, Endpoints=[].
ThmC5MergeErrors ==
    InTrace("merge") =>
        /\ err = "merge" <=> apiYamlBefore.st \in { "unreadable", "malformed" }
        /\ err = "merge" => (IsNil(finalAPI) /\ apiYaml = apiYamlBefore /\ pc = "done")
        /\ err # "merge" => ~IsNil(finalAPI)
        /\ apiYamlBefore.st = "missing" =>
              existingAPI = Some(API("/api/v1", "none", << >>))

\* a merge over a malformed api.yaml has returned its error
WitC5MergeErrors ==
    /\ InTrace("merge")
    /\ apiYamlBefore.st = "malformed"
    /\ err = "merge"
    /\ ~IsNil(importedAPI)

-----------------------------------------------------------------------------
(* Properties of format detection *)

\* DetectFormat has returned
DetectDone == trace = << "stat", "detect" >>

HasSuffix(s, suffix) ==
    Len(s) >= Len(suffix) /\ SubSeq(s, Len(s) - Len(suffix) + 1, Len(s)) = suffix

\* C7: a name ending in .yaml or .yml is detected as "openapi" whatever the
\* content; a name ending in .json is detected as "openapi" when the
\* content contains "openapi" or "swagger", else as "postman" when it
\* contains "postman" or "collection", else as "openapi"; any other name is
\* an error and leaves no format tag.
ThmC7DetectFormat ==
    DetectDone =>
        LET json == HasSuffix(src.name, ".json")
            yaml == HasSuffix(src.name, ".yaml") \/ HasSuffix(src.name, ".yml")
            has(word) == \E i \in 1..Len(src.text) :
                            i + Len(word) - 1 <= Len(src.text)
                            /\ SubSeq(src.text, i, i + Len(word) - 1) = word
        IN  /\ yaml => (err = "" /\ format = "openapi")
            /\ (json /\ src.readable) =>
                  /\ err = ""
                  /\ format = (IF has("openapi") \/ has("swagger") THEN "openapi"
                               ELSE IF has("postman") \/ has("collection") THEN "postman"
                               ELSE "openapi")
            /\ ~(json \/ yaml) => (err = "detect" /\ format = "")

\* a .json file naming both "postman" and "swagger" was detected as "openapi"
WitC7DetectFormat ==
    /\ DetectDone
    /\ HasSuffix(src.name, ".json")
    /\ src.readable
    /\ Contains(src.text, "postman")
    /\ Contains(src.text, "swagger")
    /\ format = "openapi"

-----------------------------------------------------------------------------
(* exportPostman (export command) and SpecRTPostman: an API model exported   *)
(* as a Postman collection and imported again                                *)

PostmanSchemaURL == "https://schema.getpostman.com/json/collection/v2.1.0/collection.json"

\* the item written for one endpoint
ExportPostmanItem(api, endpoint) ==
    [name |-> endpoint.Description,
     request |->
        [method |-> endpoint.Method,
         url |-> [raw |-> api.BaseURL \o endpoint.Path],
         header |-> IF endpoint.Auth
                    THEN << [key |-> "Authorization", value |-> "Bearer {{token}}"] >>
                    ELSE << >>]
        @@ (IF ~IsNil(endpoint.Request) /\ ~IsNil(endpoint.Request[1].Body)
            THEN [body |->
                    [mode |-> "raw",
                     raw |-> RawText(FALSE,
                                Some([field \in DOMAIN endpoint.Request[1].Body[1] |->
                                        JSONValue("string", "")]))]]
            ELSE EmptyMap)]

\* exportPostman: the collection before json.MarshalIndent
exportPostman(api) ==
    [info |-> [name |-> "API Collection", schema |-> PostmanSchemaURL],
     item |-> [i \in DOMAIN api.Endpoints |-> ExportPostmanItem(api, api.Endpoints[i])]]

\* json.Unmarshal(content, &collection) of a document exportPostman wrote
UnmarshalPostman(json) ==
    PostmanCollection(
        json.info.schema,
        [i \in DOMAIN json.item |->
            PostmanItem(json.item[i].name,
                Some(PostmanRequest(
                        json.item[i].request.method,
                        [h \in DOMAIN json.item[i].request.header |->
                            PostmanHeader(json.item[i].request.header[h].key,
                                          json.item[i].request.header[h].value)],
                        IF "body" \in DOMAIN json.item[i].request
                        THEN Some(PostmanBody(json.item[i].request.body.mode,
                                              json.item[i].request.body.raw, << >>, << >>))
                        ELSE Nil,
                        Some(PostmanURL(json.item[i].request.url.raw, << >>, << >>, << >>)),
                        Nil, Nil)),
                << >>)],
        Nil, << >>)

\* runExport, format "postman": content = exportPostman(api), written to a .json file
RunExportPostman ==
    /\ rtpc = "export"
    /\ rtDoc' = Some(exportPostman(rtA))
    /\ rtpc' = "import"
    /\ UNCHANGED << rtA, rtAPI >>
    /\ UNCHANGED exceptRT

\* PostmanImporter.Import of the exported file
ReimportPostman ==
    /\ rtpc = "import"
    /\ LET collection == UnmarshalPostman(rtDoc[1])
       IN  IF collection.Info.Schema = ""
           THEN rtAPI' = rtAPI /\ rtpc' = "failed"
           ELSE rtAPI' = Some(PostmanConvert(collection)) /\ rtpc' = "done"
    /\ UNCHANGED << rtA, rtDoc >>
    /\ UNCHANGED exceptRT

NextRTPostman == RunExportPostman \/ ReimportPostman

SpecRTPostman == InitRT /\ [][NextRTPostman]_vars

\* C11: importing the Postman export of A yields an API with the (method,
\* path) pairs of A and, under every pair, the auth flags A has under it.
CexC11PostmanRoundTrip ==
    RTDone =>
        /\ MethodPaths(rtAPI[1].Endpoints) = MethodPaths(rtA.Endpoints)
        /\ \A mp \in MethodPaths(rtA.Endpoints) : AuthFlags(rtAPI[1], mp) = AuthFlags(rtA, mp)

-----------------------------------------------------------------------------
(* SpecValidate: importer.Validate applied to nil and to APIs whose          *)
(* endpoints have or lack a path and a method                                *)

ValidatePool ==
    { Endpoint(path, method, "", FALSE, Nil, Nil, << >>) :
        path \in { "", "/a" }, method \in { "", "GET" } }

InitValidate ==
    /\ pc = "validate"
    /\ format \in { "openapi", "postman", "architect" }
    /\ \/ importedAPI = Nil
       \/ \E b \in { "", "/api/v1" }, el \in SeqsUpTo(ValidatePool, MaxValidateEndpoints) :
             importedAPI = Some(API(b, "none", el))
    /\ src = MissingSrc
    /\ mergeFlag = FALSE
    /\ overwriteFlag = FALSE
    /\ archDir = TRUE
    /\ apiYaml = MissingFile
    /\ projectMd = TRUE
    /\ rulesFile = Nil
    /\ finalAPI = Nil
    /\ err = ""
    /\ trace = << "stat", "create", "import" >>
    /\ apiYamlBefore = apiYaml
    /\ existingAPI = Nil
    /\ RTIdle
    /\ PMIdle
    /\ AlIdle
    /\ InIdle
    /\ WIdle

NextValidate == ValidateStage

SpecValidate == InitValidate /\ [][NextValidate]_vars

\* Validate has returned
ValidateDone == trace = << "stat", "create", "import", "validate" >>

\* the endpoint lacks a path or a method
Incomplete(e) == e.Path = "" \/ e.Method = ""

\* C12 as stated: the OpenAPI and Postman Validate fails for nil, for an
\* empty BaseURL and for an API with an endpoint that lacks a path or a
\* method, and the error of every API with such an endpoint names the index
\* of the first one; the native Validate accepts every non-nil API with a
\* non-empty BaseURL.
CexC12ValidationRejection ==
    ValidateDone =>
        IF CreateImporter(format) = "ArchitectImporter"
        THEN (~IsNil(importedAPI) /\ importedAPI[1].BaseURL # "") => err = ""
        ELSE /\ IsNil(importedAPI) => err = "validate"
             /\ (~IsNil(importedAPI) /\ importedAPI[1].BaseURL = "") => err = "validate"
             /\ (~IsNil(importedAPI) /\ \E e \in Range(importedAPI[1].Endpoints) : Incomplete(e)) =>
                   /\ err = "validate"
                   /\ \E k \in DOMAIN importedAPI[1].Endpoints :
                         /\ Incomplete(importedAPI[1].Endpoints[k])
                         /\ \A j \in 1..(k - 1) : ~Incomplete(importedAPI[1].Endpoints[j])
                         /\ HasPrefix(Validate(CreateImporter(format), importedAPI),
                                      "endpoint " \o Itoa(k - 1) \o ":")

\* C12 (amended): the OpenAPI and Postman Validate fails for nil, for an
\* empty BaseURL and for an API with an endpoint that lacks a path or a
\* method, and accepts every other API; when the API is non-nil and has a
\* non-empty BaseURL, the error names the zero-based index of the first
\* such endpoint and what it lacks (for nil and for an empty BaseURL the
\* error names no endpoint).  The native Validate fails for nil and for an
\* empty BaseURL and accepts every other API.
ThmC12ValidationRejection ==
    ValidateDone =>
        LET message == Validate(CreateImporter(format), importedAPI)
            rejected == err = "validate"
        IN  /\ rejected <=> message # ""
            /\ IsNil(importedAPI) => (rejected /\ message = "API cannot be nil")
            /\ (~IsNil(importedAPI) /\ importedAPI[1].BaseURL = "") =>
                  (rejected /\ message = "base URL is required")
            /\ (~IsNil(importedAPI) /\ importedAPI[1].BaseURL # "") =>
                  IF CreateImporter(format) = "ArchitectImporter" THEN ~rejected
                  ELSE LET es == importedAPI[1].Endpoints
                       IN  /\ rejected <=> \E k \in DOMAIN es : Incomplete(es[k])
                           /\ \A k \in DOMAIN es :
                                 (Incomplete(es[k]) /\ \A j \in 1..(k - 1) : ~Incomplete(es[j])) =>
                                    message = "endpoint " \o Itoa(k - 1) \o ": "
                                        \o (IF es[k].Path = "" THEN "path" ELSE "method")
                                        \o " is required"

\* the third endpoint is the first to lack a method, and Validate named it
WitC12ValidationRejection ==
    /\ ValidateDone
    /\ CreateImporter(format) = "PostmanImporter"
    /\ err = "validate"
    /\ ~IsNil(importedAPI)
    /\ Len(importedAPI[1].Endpoints) = 3
    /\ ~Incomplete(importedAPI[1].Endpoints[1])
    /\ ~Incomplete(importedAPI[1].Endpoints[2])
    /\ importedAPI[1].Endpoints[3].Method = ""
    /\ Validate(CreateImporter(format), importedAPI) = "endpoint 2: method is required"

-----------------------------------------------------------------------------
(* SpecAlias: mergeWithExisting over Go's memory.  An Endpoint is a struct   *)
(* held by value in the backing array of a slice; its Request and Response   *)
(* are pointers, the field maps and the Errors slice are references.  The    *)
(* heap maps the address of every array, object and map to its content; an  *)
(* address names the API the part was built for, the endpoint and the part; *)
(* the nil reference is Nil.                                                 *)

\* the reference a nilable value is held through
Ref(nilable, addr) == IF IsNil(nilable) THEN Nil ELSE addr

\* models.Endpoint as the struct is laid out: scalars and references
EndpointStruct(e, owner, i) ==
    Endpoint(e.Path, e.Method, e.Description, e.Auth,
             Ref(e.Request, << owner, i, "Request" >>),
             Ref(e.Response, << owner, i, "Response" >>),
             Ref(e.Errors, << owner, i, "Errors" >>))

\* models.API as the struct is laid out
APIStruct(api, owner) ==
    API(api.BaseURL, api.AuthType, Ref(api.Endpoints, << owner, 0, "Endpoints" >>))

\* the addresses of what the API `owner` is built of
Addrs(api, owner) ==
    LET es == api.Endpoints
        withRequest == { i \in DOMAIN es : ~IsNil(es[i].Request) }
        withResponse == { i \in DOMAIN es : ~IsNil(es[i].Response) }
    IN  { << owner, 0, "Endpoints" >> : x \in { 1 } \cap DOMAIN es }
        \cup { << owner, i, "Request" >> : i \in withRequest }
        \cup { << owner, i, "Request.Params" >> :
                 i \in { j \in withRequest : ~IsNil(es[j].Request[1].Params) } }
        \cup { << owner, i, "Request.Query" >> :
                 i \in { j \in withRequest : ~IsNil(es[j].Request[1].Query) } }
        \cup { << owner, i, "Request.Body" >> :
                 i \in { j \in withRequest : ~IsNil(es[j].Request[1].Body) } }
        \cup { << owner, i, "Response" >> : i \in withResponse }
        \cup { << owner, i, "Response.Body" >> :
                 i \in { j \in withResponse : ~IsNil(es[j].Response[1].Body) } }
        \cup { << owner, i, "Errors" >> : i \in { j \in DOMAIN es : ~IsNil(es[j].Errors) } }

\* what is stored at an address of Addrs(api, owner)
Content(api, addr) ==
    LET owner == addr[1]
        i == addr[2]
        part == addr[3]
        es == api.Endpoints
    IN  CASE part = "Endpoints" -> [j \in DOMAIN es |-> EndpointStruct(es[j], owner, j)]
          [] part = "Request" ->
                EndpointRequest(Ref(es[i].Request[1].Params, << owner, i, "Request.Params" >>),
                                Ref(es[i].Request[1].Query, << owner, i, "Request.Query" >>),
                                Ref(es[i].Request[1].Body, << owner, i, "Request.Body" >>))
          [] part = "Request.Params" -> es[i].Request[1].Params[1]
          [] part = "Request.Query" -> es[i].Request[1].Query[1]
          [] part = "Request.Body" -> es[i].Request[1].Body[1]
          [] part = "Response" ->
                EndpointResponse(es[i].Response[1].Status,
                                 Ref(es[i].Response[1].Body, << owner, i, "Response.Body" >>))
          [] part = "Response.Body" -> es[i].Response[1].Body[1]
          [] part = "Errors" -> es[i].Errors

\* the memory holding existingAPI as yaml.Unmarshal built it and importedAPI
\* as the importer built it: no part is shared
Heap(existing, imported) ==
    [addr \in Addrs(existing, "existing") \cup Addrs(imported, "imported") |->
        Content(IF addr[1] = "existing" THEN existing ELSE imported, addr)]

\* the value behind a reference
At(heap, ref) == IF IsNil(ref) THEN Nil ELSE Some(heap[ref])

\* the endpoints of the slice an API struct holds
EndpointsAt(heap, api) == IF IsNil(api.Endpoints) THEN << >> ELSE heap[api.Endpoints]

\* the endpoint a struct denotes, every reference followed
DerefEndpoint(heap, e) ==
    Endpoint(e.Path, e.Method, e.Description, e.Auth,
             IF IsNil(e.Request) THEN Nil
             ELSE Some(EndpointRequest(At(heap, heap[e.Request].Params),
                                       At(heap, heap[e.Request].Query),
                                       At(heap, heap[e.Request].Body))),
             IF IsNil(e.Response) THEN Nil
             ELSE Some(EndpointResponse(heap[e.Response].Status,
                                        At(heap, heap[e.Response].Body))),
             IF IsNil(e.Errors) THEN << >> ELSE heap[e.Errors])

\* the API a struct denotes, every reference followed
Deref(heap, api) ==
    API(api.BaseURL, api.AuthType,
        [i \in DOMAIN EndpointsAt(heap, api) |-> DerefEndpoint(heap, EndpointsAt(heap, api)[i])])

\* the non-nil references among refs
NonNil(refs) == { r \in refs : ~IsNil(r) }

\* the field maps reachable from an API struct
ReachableMaps(heap, api) ==
    LET es == EndpointsAt(heap, api)
    IN  UNION { NonNil((IF IsNil(es[i].Request) THEN { }
                        ELSE { heap[es[i].Request].Params, heap[es[i].Request].Query,
                               heap[es[i].Request].Body })
                       \cup (IF IsNil(es[i].Response) THEN { }
                             ELSE { heap[es[i].Response].Body })) : i \in DOMAIN es }

\* the request and response objects reachable from an API struct
ReachableObjects(heap, api) ==
    LET es == EndpointsAt(heap, api)
    IN  UNION { NonNil({ es[i].Request, es[i].Response }) : i \in DOMAIN es }

\* the arrays reachable from an API struct: the one holding its endpoint
\* entries and those of the Errors slices
ReachableArrays(heap, api) ==
    LET es == EndpointsAt(heap, api)
    IN  NonNil({ api.Endpoints }) \cup NonNil({ es[i].Errors : i \in DOMAIN es })

\* everything reachable from an API struct
Reachable(heap, api) ==
    ReachableArrays(heap, api) \cup ReachableObjects(heap, api) \cup ReachableMaps(heap, api)

AliasFields == [f \in { "id" } |-> "uuid, required"]

AliasEndpoints ==
    { Endpoint(path, "GET", "", FALSE, request, Some(EndpointResponse(200, Some(EmptyMap))), << >>) :
        path \in { "/a", "/b" },
        request \in { Nil, Some(EndpointRequest(Nil, Nil, Some(AliasFields))) } }

AliasAPIs == { API("/api/v1", "none", es) : es \in SeqsUpTo(AliasEndpoints, MaxAliasEndpoints) }

InitAlias ==
    /\ \E existing \in AliasAPIs, imported \in AliasAPIs :
          /\ alHeap = Heap(existing, imported)
          /\ alExisting = APIStruct(existing, "existing")
          /\ alImported = APIStruct(imported, "imported")
    /\ alMerged = Nil
    /\ alpc = "merge"
    /\ InitImportIdle
    /\ RTIdle
    /\ PMIdle
    /\ InIdle
    /\ WIdle

\* mergeWithExisting: endpointMap[key] = endpoint copies the struct, and
\* append puts the copies into a new array
AlMerge ==
    /\ alpc = "merge"
    /\ \E merged \in MergeResults(API(alExisting.BaseURL, alExisting.AuthType,
                                      EndpointsAt(alHeap, alExisting)),
                                  API(alImported.BaseURL, alImported.AuthType,
                                      EndpointsAt(alHeap, alImported))) :
          LET array == << "merged", 0, "Endpoints" >>
          IN  /\ alMerged' = Some(API(merged.BaseURL, merged.AuthType,
                                      Ref(merged.Endpoints, array)))
              /\ alHeap' = IF IsNil(merged.Endpoints) THEN alHeap
                           ELSE [addr \in DOMAIN alHeap \cup { array } |->
                                   IF addr = array THEN merged.Endpoints ELSE alHeap[addr]]
    /\ alpc' = "merged"
    /\ UNCHANGED << alExisting, alImported >>
    /\ UNCHANGED exceptAl

\* a later assignment fields[key] = value through the imported API, which
\* the caller of mergeWithExisting still holds
AlMutate ==
    /\ alpc = "merged"
    /\ \E ref \in ReachableMaps(alHeap, alImported), key \in { "id", "name" },
          value \in { "string, optional" } :
          alHeap' = [alHeap EXCEPT ![ref] =
                        [k \in DOMAIN @ \cup { key } |-> IF k = key THEN value ELSE @[k]]]
    /\ alpc' = "mutated"
    /\ UNCHANGED << alExisting, alImported, alMerged >>
    /\ UNCHANGED exceptAl

NextAlias == AlMerge \/ AlMutate

SpecAlias == InitAlias /\ [][NextAlias]_vars

\* C13: nothing reachable from the merged API (endpoint array, request or
\* response object, field map) is reachable from the existing or from the
\* imported API, and a later write to a field map of an input leaves the
\* API the merged struct denotes as it was.
CexC13MergeOutputNoAlias ==
    /\ [](~IsNil(alMerged) =>
            Reachable(alHeap, alMerged[1])
                \cap (Reachable(alHeap, alExisting) \cup Reachable(alHeap, alImported)) = { })
    /\ [][~IsNil(alMerged) => Deref(alHeap, alMerged[1])' = Deref(alHeap, alMerged[1])]_vars

-----------------------------------------------------------------------------
(* SpecInit: runInit (init command).  inPrompts records every prompt the    *)
(* survey library is asked to show; the answers are inputs.                  *)

\* the defaults InitCmd declares for the flags
DefaultFlags ==
    [name |-> "", description |-> "", backend |-> "FastAPI", database |-> "PostgreSQL",
     auth |-> "JWT Bearer", noBusinessLogic |-> FALSE, noEndpoints |-> FALSE,
     force |-> FALSE, quiet |-> FALSE]

\* the command lines considered: a flag that is not given has its default
InitFlags ==
    [name : { "", "Shop" }, description : { "", "A shop" },
     backend : { DefaultFlags.backend, "Express" }, database : { DefaultFlags.database },
     auth : { DefaultFlags.auth, "None" }, noBusinessLogic : BOOLEAN,
     noEndpoints : BOOLEAN, force : BOOLEAN, quiet : BOOLEAN]

\* isInteractive := flagName == "" || flagDescription == ""
isInteractive(flags) == flags.name = "" \/ flags.description = ""

convertAuthType(auth) ==
    CASE auth = "JWT Bearer" -> "bearer"
      [] auth = "API Key" -> "api_key"
      [] auth = "OAuth2" -> "oauth2"
      [] auth = "Basic Auth" -> "basic"
      [] OTHER -> "none"

\* models.Project and the API's AuthType as runInit fills them;
\* BusinessLogic and Endpoints tell whether any were collected
Project(name, description, backend, database, auth, businessLogic, endpoints) ==
    [Name |-> name, Description |-> description, Backend |-> backend,
     Database |-> database, Auth |-> auth, AuthType |-> convertAuthType(auth),
     BusinessLogic |-> businessLogic, Endpoints |-> endpoints]

InitInit ==
    /\ inFlags \in InitFlags
    /\ inDirExists \in BOOLEAN
    /\ inPrompts = << >>
    /\ inProject = Nil
    /\ inpc = "stat"
    /\ InitImportIdle
    /\ RTIdle
    /\ PMIdle
    /\ AlIdle
    /\ WIdle

\* the check of .architect: overwrite silently with --force, ask when
\* interactive, fail otherwise
InitStat ==
    /\ inpc = "stat"
    /\ \/ /\ ~inDirExists \/ inFlags.force
          /\ inpc' = "collect"
          /\ UNCHANGED inPrompts
       \/ /\ inDirExists /\ ~inFlags.force /\ isInteractive(inFlags)
          /\ inPrompts' = Append(inPrompts, "overwrite")
          /\ \E overwrite \in BOOLEAN : inpc' = IF overwrite THEN "collect" ELSE "declined"
       \/ /\ inDirExists /\ ~inFlags.force /\ ~isInteractive(inFlags)
          /\ inpc' = "error"
          /\ UNCHANGED inPrompts
    /\ UNCHANGED << inFlags, inDirExists, inProject >>
    /\ UNCHANGED exceptIn

\* the questions survey.Ask is given in interactive mode
Questions(flags) ==
    (IF flags.name = "" THEN << "name" >> ELSE << >>)
        \o (IF flags.description = "" THEN << "description" >> ELSE << >>)
        \o << "backend", "database", "auth" >>

\* the project information: from the answers in interactive mode, from the
\* flags otherwise
InitCollect ==
    /\ inpc = "collect"
    /\ \/ /\ isInteractive(inFlags)
          /\ inPrompts' = inPrompts \o Questions(inFlags)
          /\ \/ /\ inpc' = "error"
                /\ UNCHANGED inProject
             \/ \E name \in { "Asked" }, description \in { "An answer" },
                   backend \in { inFlags.backend, "Django" },
                   database \in { inFlags.database, "SQLite" },
                   auth \in { inFlags.auth, "API Key" } :
                   /\ inProject' =
                         Some(Project(IF inFlags.name # "" THEN inFlags.name ELSE name,
                                      IF inFlags.description # "" THEN inFlags.description
                                      ELSE description,
                                      backend, database, auth, FALSE, FALSE))
                   /\ inpc' = "logic"
       \/ /\ ~isInteractive(inFlags)
          /\ inProject' = Some(Project(inFlags.name, inFlags.description, inFlags.backend,
                                       inFlags.database, inFlags.auth, FALSE, FALSE))
          /\ inpc' = "logic"
          /\ UNCHANGED inPrompts
    /\ UNCHANGED << inFlags, inDirExists >>
    /\ UNCHANGED exceptIn

\* whether the confirmation before collectBusinessLogic and collectEndpoints
\* is shown
Confirms(flags, skip) == ~skip /\ isInteractive(flags) /\ ~flags.quiet

InitBusinessLogic ==
    /\ inpc = "logic"
    /\ \/ /\ Confirms(inFlags, inFlags.noBusinessLogic)
          /\ \E addBusinessLogic \in BOOLEAN :
                /\ inPrompts' = Append(inPrompts, "add business logic")
                                    \o (IF addBusinessLogic THEN << "business logic" >> ELSE << >>)
                /\ inProject' = Some([inProject[1] EXCEPT !.BusinessLogic = addBusinessLogic])
       \/ /\ ~Confirms(inFlags, inFlags.noBusinessLogic)
          /\ UNCHANGED << inPrompts, inProject >>
    /\ inpc' = "endpoints"
    /\ UNCHANGED << inFlags, inDirExists >>
    /\ UNCHANGED exceptIn

InitEndpoints ==
    /\ inpc = "endpoints"
    /\ \/ /\ Confirms(inFlags, inFlags.noEndpoints)
          /\ \E addEndpoints \in BOOLEAN :
                /\ inPrompts' = Append(inPrompts, "add endpoints")
                                    \o (IF addEndpoints THEN << "endpoints" >> ELSE << >>)
                /\ inProject' = Some([inProject[1] EXCEPT !.Endpoints = addEndpoints])
       \/ /\ ~Confirms(inFlags, inFlags.noEndpoints)
          /\ UNCHANGED << inPrompts, inProject >>
    /\ inpc' = "write"
    /\ UNCHANGED << inFlags, inDirExists >>
    /\ UNCHANGED exceptIn

\* os.MkdirAll and the three os.WriteFile
InitWrite ==
    /\ inpc = "write"
    /\ inDirExists' = TRUE
    /\ inpc' = "written"
    /\ UNCHANGED << inFlags, inPrompts, inProject >>
    /\ UNCHANGED exceptIn

NextInit == InitStat \/ InitCollect \/ InitBusinessLogic \/ InitEndpoints \/ InitWrite

SpecInit == InitInit /\ [][NextInit]_vars

\* C14: a run of init with --quiet issues no prompt, and the project it
\* writes has, for every value, the value of its flag (the default when the
\* flag is not given).
CexC14QuietInitNeverPrompts ==
    inFlags.quiet =>
        /\ inPrompts = << >>
        /\ inpc = "written" =>
              /\ inProject[1].Name = inFlags.name
              /\ inProject[1].Description = inFlags.description
              /\ inProject[1].Backend = inFlags.backend
              /\ inProject[1].Database = inFlags.database
              /\ inProject[1].Auth = inFlags.auth

-----------------------------------------------------------------------------
(* SpecSchema: OpenAPIImporter.Import of documents whose request body has    *)
(* two properties, over the types and formats a property schema can carry    *)

\* a property schema as json.Unmarshal yields it; "" stands for an absent key
PropertySchema(typeVal, formatVal) ==
    IF typeVal = "" /\ formatVal = "" THEN EmptyMap
    ELSE IF typeVal = "" THEN [format |-> formatVal]
    ELSE IF formatVal = "" THEN [type |-> typeVal]
    ELSE [type |-> typeVal, format |-> formatVal]

SchemaTypes == { "", "string", "integer", "number", "boolean", "array", "object", "null" }

SchemaFormats == { "", "uuid", "date-time", "email", "int64" }

PropertySchemas ==
    { PropertySchema(typeVal, formatVal) : typeVal \in SchemaTypes, formatVal \in SchemaFormats }

\* POST /users with the body {id, at}; id is required
SchemaDoc(id, at) ==
    [paths |->
        [p \in { "/users" } |->
            [m \in { "post" } |->
                [requestBody |->
                    [content |->
                        ApplicationJSON :>
                            [schema |-> [type |-> "object",
                                         properties |-> [id |-> id, at |-> at],
                                         required |-> { "id" }]]]]]]]

InitSchema ==
    /\ InitImportIdle
    /\ PMIdle
    /\ AlIdle
    /\ InIdle
    /\ WIdle
    /\ rtA = API("", "", << >>)
    /\ \E id \in PropertySchemas, at \in PropertySchemas : rtDoc = Some(SchemaDoc(id, at))
    /\ rtAPI = Nil
    /\ rtpc = "import"

NextSchema == ReimportOpenAPI

SpecSchema == InitSchema /\ [][NextSchema]_vars

\* the tag the schema-to-type mapping is stated to give
StatedTag(schema) ==
    IF "format" \in DOMAIN schema /\ schema.format = "uuid" THEN "uuid"
    ELSE IF "format" \in DOMAIN schema /\ schema.format = "date-time" THEN "datetime"
    ELSE IF "type" \notin DOMAIN schema THEN "string"
    ELSE CASE schema.type \in { "integer", "number" } -> "integer"
           [] schema.type \in { "boolean", "array", "object" } -> schema.type
           [] OTHER -> "string"

\* the properties of the request body of the imported document
SchemaProperties ==
    rtDoc[1].paths["/users"]["post"].requestBody.content[ApplicationJSON].schema.properties

\* C15: every property schema is imported with the tag "uuid" for the format
\* uuid and "datetime" for the format date-time, whatever its type, and
\* otherwise with "integer" for the types integer and number, "boolean",
\* "array", "object" for these types and "string" for anything else.
CexC15SchemaToType ==
    (rtpc = "done" /\ ~IsNil(rtDoc) /\ "paths" \in DOMAIN rtDoc[1]
        /\ "/users" \in DOMAIN rtDoc[1].paths) =>
        LET body == rtAPI[1].Endpoints[1].Request[1].Body[1]
        IN  /\ body["id"] = StatedTag(SchemaProperties["id"]) \o ", required"
            /\ body["at"] = StatedTag(SchemaProperties["at"]) \o ", optional"

-----------------------------------------------------------------------------
(* SpecPostmanAuth: PostmanImporter.Import of collections whose requests and *)
(* whose collection object declare auth, carry auth headers, or neither      *)

\* PostmanImporter.Import from the parsed collection on
PostmanImportStep ==
    /\ pmpc = "import"
    /\ pmAPI' = Some(PostmanConvert(pmCollection))
    /\ pmpc' = "done"
    /\ UNCHANGED pmCollection
    /\ UNCHANGED exceptPM

AuthHeaders ==
    { << >>,
      << PostmanHeader("Authorization", "Basic abc") >>,
      << PostmanHeader("x-api-key", "k") >>,
      << PostmanHeader("Content-Type", "application/json") >> }

RequestAuths == { Nil, Some(PostmanAuth("noauth")), Some(PostmanAuth("oauth2")),
                  Some(PostmanAuth("apikey")) }

CollectionAuths == { Nil, Some(PostmanAuth("bearer")), Some(PostmanAuth("noauth")),
                     Some(PostmanAuth("basic")), Some(PostmanAuth("")) }

AuthItems ==
    { PostmanItem("List items",
                  Some(PostmanRequest("GET", header, Nil,
                                      Some(PostmanURL("/items", << "items" >>, << >>, << >>)),
                                      auth, Nil)),
                  << >>) :
        header \in AuthHeaders, auth \in RequestAuths }

InitPostmanAuth ==
    /\ \E items \in SeqsUpTo(AuthItems, MaxAuthRequests), auth \in CollectionAuths :
          pmCollection = PostmanCollection(PostmanSchemaURL, items, auth, << >>)
    /\ pmAPI = Nil
    /\ pmpc = "import"
    /\ InitImportIdle
    /\ RTIdle
    /\ AlIdle
    /\ InIdle
    /\ WIdle

NextPostmanAuth == PostmanImportStep

SpecPostmanAuth == InitPostmanAuth /\ [][NextPostmanAuth]_vars

\* the API auth type a Postman auth type stands for
AuthTypeOf(auth) ==
    LET lower == ToLower(auth.Type)
    IN  IF lower \in { "bearer", "oauth1", "oauth2" } THEN "bearer"
        ELSE IF lower \in { "basic", "apikey" } THEN lower
        ELSE "none"

\* the auth type a header stands for, "" when it stands for none
HeaderTypeOf(header) ==
    IF ToLower(header.Key) = "authorization" /\ Contains(ToLower(header.Value), "bearer")
    THEN "bearer"
    ELSE IF ToLower(header.Key) = "authorization" /\ Contains(ToLower(header.Value), "basic")
    THEN "basic"
    ELSE IF ToLower(header.Key) = "x-api-key" THEN "apikey"
    ELSE ""

\* the auth type the first deciding header of a request stands for, "none"
\* when no header decides
HeadersTypeOf(request) ==
    LET deciding == { k \in DOMAIN request.Header : HeaderTypeOf(request.Header[k]) # "" }
    IN  IF deciding = { } THEN "none"
        ELSE HeaderTypeOf(request.Header[CHOOSE k \in deciding : \A l \in deciding : k <= l])

\* the requests of the collection imported, which holds no folder
PMRequests == [i \in DOMAIN pmCollection.Item |-> pmCollection.Item[i].Request[1]]

PMDone == pmpc = "done"

\* C16 as stated: when a request declares auth the API's auth type is the
\* mapping of a request-level type, whatever the collection declares; else
\* it is the mapping of the collection-level type when the collection
\* declares auth; headers decide only when neither level declares auth.
CexC16AuthTypeInference ==
    PMDone =>
        LET declared == { i \in DOMAIN PMRequests : ~IsNil(PMRequests[i].Auth) }
            deciding == { i \in DOMAIN PMRequests : HeadersTypeOf(PMRequests[i]) # "none" }
        IN  pmAPI[1].AuthType =
                IF declared # { }
                THEN AuthTypeOf(PMRequests[CHOOSE i \in declared : \A j \in declared : i <= j].Auth[1])
                ELSE IF ~IsNil(pmCollection.Auth) THEN AuthTypeOf(pmCollection.Auth[1])
                ELSE IF deciding # { }
                THEN HeadersTypeOf(PMRequests[CHOOSE i \in deciding : \A j \in deciding : i <= j])
                ELSE "none"

\* C16 (amended): when the collection declares auth, the API's auth type is
\* the mapping of the collection-level type, whatever the requests declare.
\* Otherwise the first request, in document order, that declares auth or has
\* a deciding header decides: by the mapping of its request-level type when
\* it declares auth, else by its first deciding header.  oauth1 and oauth2
\* map to bearer, unknown types to none, and the default is none.
ThmC16AuthTypeInference ==
    PMDone =>
        LET decides(i) == ~IsNil(PMRequests[i].Auth) \/ HeadersTypeOf(PMRequests[i]) # "none"
            deciding == { i \in DOMAIN PMRequests : decides(i) }
            first == CHOOSE i \in deciding : \A j \in deciding : i <= j
        IN  pmAPI[1].AuthType =
                IF ~IsNil(pmCollection.Auth) THEN AuthTypeOf(pmCollection.Auth[1])
                ELSE IF deciding = { } THEN "none"
                ELSE IF ~IsNil(PMRequests[first].Auth) THEN AuthTypeOf(PMRequests[first].Auth[1])
                ELSE HeadersTypeOf(PMRequests[first])

\* a request declares oauth2 inside a collection that declares basic, and
\* the API's auth type is basic
WitC16AuthTypeInference ==
    /\ PMDone
    /\ pmCollection.Auth = Some(PostmanAuth("basic"))
    /\ Len(PMRequests) = 1
    /\ PMRequests[1].Auth = Some(PostmanAuth("oauth2"))
    /\ pmAPI[1].AuthType = "basic"

\* the auth flag the chain of C17 gives a request: every link is tried
ChainFlag(request) ==
    IF ~IsNil(request.Auth) /\ request.Auth[1].Type \notin { "", "noauth" } THEN TRUE
    ELSE IF ~IsNil(pmCollection.Auth) /\ pmCollection.Auth[1].Type \notin { "", "noauth" } THEN TRUE
    ELSE \E k \in DOMAIN request.Header :
            ToLower(request.Header[k].Key) \in { "authorization", "x-api-key" }

\* C17 as stated: every endpoint's auth flag is what the chain gives its
\* request: request-level type, else collection-level type, else headers.
CexC17EndpointAuthFlag ==
    PMDone => \A i \in DOMAIN PMRequests : pmAPI[1].Endpoints[i].Auth = ChainFlag(PMRequests[i])

\* C17 (amended): the first level that is present decides alone.  When the
\* request declares auth, the flag is true exactly if its type is neither
\* "noauth" nor empty; otherwise, when the collection declares auth, the
\* flag is true exactly if the collection's type is neither "noauth" nor
\* empty; otherwise the flag is true exactly if the request has an
\* Authorization or X-API-Key header (any case).
ThmC17EndpointAuthFlag ==
    PMDone =>
        \A i \in DOMAIN PMRequests :
            pmAPI[1].Endpoints[i].Auth =
                IF ~IsNil(PMRequests[i].Auth)
                THEN PMRequests[i].Auth[1].Type \notin { "", "noauth" }
                ELSE IF ~IsNil(pmCollection.Auth)
                THEN pmCollection.Auth[1].Type \notin { "", "noauth" }
                ELSE \E k \in DOMAIN PMRequests[i].Header :
                        ToLower(PMRequests[i].Header[k].Key) \in { "authorization", "x-api-key" }

\* a "noauth" request with an API-key header inside a bearer collection is
\* imported without the auth flag
WitC17EndpointAuthFlag ==
    /\ PMDone
    /\ pmCollection.Auth = Some(PostmanAuth("bearer"))
    /\ Len(PMRequests) = 2
    /\ PMRequests[2].Auth = Some(PostmanAuth("noauth"))
    /\ PMRequests[2].Header = << PostmanHeader("x-api-key", "k") >>
    /\ ~pmAPI[1].Endpoints[2].Auth

-----------------------------------------------------------------------------
(* SpecPostmanBase: PostmanImporter.Import of collections of GET requests,   *)
(* over the raw URLs of the requests and the variables of the collection     *)

\* a GET request for the raw URL
GetItem(raw) ==
    PostmanItem("Request", Some(PostmanRequest("GET", << >>, Nil,
                                               Some(PostmanURL(raw, << >>, << >>, << >>)),
                                               Nil, Nil)),
                << >>)

BaseRawURLs ==
    { "/api/v1/users", "/api/v1/users/{{id}}", "/api/v1/orders", "/health",
      "{{baseUrl}}/api/v1/users" }

\* six requests: the sixth shares nothing with the first five
SixItems ==
    << GetItem("/api/v1/users"), GetItem("/api/v1/orders"), GetItem("/api/v1/users"),
       GetItem("/api/v1/orders"), GetItem("/api/v1/users"), GetItem("/health") >>

\* no variable, and a base URL variable that holds a scheme and a host only
BaseVariables == { << >>, << PostmanVariable("baseUrl", "https://h.io") >> }

InitPostmanBase ==
    /\ \E items \in { [k \in DOMAIN raws |-> GetItem(raws[k])] :
                        raws \in SeqsUpTo(BaseRawURLs, MaxBaseRequests) } \cup { SixItems },
          variables \in BaseVariables :
          pmCollection = PostmanCollection(PostmanSchemaURL, items, Nil, variables)
    /\ pmAPI = Nil
    /\ pmpc = "import"
    /\ InitImportIdle
    /\ RTIdle
    /\ AlIdle
    /\ InIdle
    /\ WIdle

NextPostmanBase == PostmanImportStep

SpecPostmanBase == InitPostmanBase /\ [][NextPostmanBase]_vars

\* the raw URLs of the first five requests of the collection imported
FirstFiveRaw ==
    [k \in { i \in DOMAIN pmCollection.Item : i <= 5 } |-> pmCollection.Item[k].Request[1].URL[1].Raw]

\* the segments of a path that starts with "/" and does not end with it
SegmentsOf(path) == Split(From(path, 2), "/")

\* the number of leading segments the segment lists have in common
CommonLength(lists) ==
    LET common(n) == \A k \in DOMAIN lists :
                        /\ n <= Len(lists[k])
                        /\ SubSeq(lists[k], 1, n) = SubSeq(lists[1], 1, n)
    IN  CHOOSE n \in 0..Len(lists[1]) : common(n) /\ ~common(n + 1)

\* C18: for collections without a variable that supplies a path, (1) when
\* the request URLs are plain paths the base URL is "/" and the leading
\* segments common to the first five of them, /api/v1 when there is none;
\* (2) when every request URL has the form {{baseUrl}}/api/v1/... the base
\* URL holds no placeholder, no scheme and no host.
CexC18BaseURLInference ==
    (PMDone /\ Len(pmCollection.Item) > 0) =>
        /\ (\A k \in DOMAIN FirstFiveRaw : ~Contains(FirstFiveRaw[k], "{")) =>
              LET lists == [k \in DOMAIN FirstFiveRaw |-> SegmentsOf(FirstFiveRaw[k])]
                  n == CommonLength(lists)
              IN  pmAPI[1].BaseURL =
                      IF n = 0 THEN "/api/v1" ELSE "/" \o Join(SubSeq(lists[1], 1, n), "/")
        /\ (\A k \in DOMAIN pmCollection.Item :
                HasPrefix(pmCollection.Item[k].Request[1].URL[1].Raw, "{{baseUrl}}/api/v1/")) =>
              /\ ~Contains(pmAPI[1].BaseURL, "{")
              /\ ~Contains(pmAPI[1].BaseURL, "https:")
              /\ ~Contains(pmAPI[1].BaseURL, "h.io")

-----------------------------------------------------------------------------
(* SpecPostmanTree: PostmanImporter.Import of item trees: requests, folders, *)
(* empty folders and requests that have children of their own                *)

\* a request without URL, named so that the endpoint made of it is known by
\* its description
NamedRequest == Some(PostmanRequest("GET", << >>, Nil, Nil, Nil, Nil))

\* the nodes without children
TreeLeaves ==
    { PostmanItem(name, NamedRequest, << >>) : name \in { "a", "b" } }
        \cup { PostmanItem("empty", Nil, << >>) }

\* the nodes whose children are leaves: folders, and requests with children
TreeFolders ==
    { PostmanItem(name, request, children) :
        name \in { "c" }, request \in { Nil, NamedRequest },
        children \in SeqsUpTo(TreeLeaves, 2) \ { << >> } }

\* a folder of a folder of a folder, with requests at every depth
DeepFolder ==
    PostmanItem("deep", Nil,
        << PostmanItem("a", NamedRequest, << >>),
           PostmanItem("inner", Nil,
               << PostmanItem("innermost", Nil,
                      << PostmanItem("b", NamedRequest, << >>),
                         PostmanItem("c", NamedRequest,
                                     << PostmanItem("a", NamedRequest, << >>) >>) >>),
                  PostmanItem("a", NamedRequest, << >>) >>),
           PostmanItem("b", NamedRequest, << >>) >>)

TreeNodes == TreeLeaves \cup TreeFolders \cup { DeepFolder }

InitPostmanTree ==
    /\ \E items \in SeqsUpTo(TreeNodes, MaxTreeItems) :
          pmCollection = PostmanCollection(PostmanSchemaURL, items, Nil, << >>)
    /\ pmAPI = Nil
    /\ pmpc = "import"
    /\ InitImportIdle
    /\ RTIdle
    /\ AlIdle
    /\ InIdle
    /\ WIdle

NextPostmanTree == PostmanImportStep

SpecPostmanTree == InitPostmanTree /\ [][NextPostmanTree]_vars

\* the names of the nodes that contribute an endpoint, in the order of the
\* contributions: a node with a request contributes itself and hides its
\* children, a node without request contributes what its children do
RECURSIVE Flattening(_)
Flattening(items) ==
    IF items = << >> THEN << >>
    ELSE LET node == items[1]
         IN  (IF node.Request # Nil THEN << node.Name >> ELSE Flattening(node.Item))
                 \o Flattening(Tail(items))

\* C19: the endpoints imported are, in order, one per node of the
\* depth-first, document-order flattening of the item tree: a node with a
\* request contributes one endpoint and its children none, a node without
\* request contributes the endpoints of its children, an empty node none.
ThmC19EndpointDiscovery ==
    PMDone =>
        /\ Len(pmAPI[1].Endpoints) = Len(Flattening(pmCollection.Item))
        /\ \A i \in DOMAIN pmAPI[1].Endpoints :
              pmAPI[1].Endpoints[i].Description = Flattening(pmCollection.Item)[i]

\* the deep folder after a request with a child: six endpoints, none for
\* the children of the two requests that have one
WitC19EndpointDiscovery ==
    /\ PMDone
    /\ Len(pmCollection.Item) = 2
    /\ pmCollection.Item[1] = PostmanItem("c", NamedRequest, << PostmanItem("b", NamedRequest, << >>) >>)
    /\ pmCollection.Item[2] = DeepFolder
    /\ [i \in DOMAIN pmAPI[1].Endpoints |-> pmAPI[1].Endpoints[i].Description]
          = << "c", "a", "b", "c", "a", "b" >>

-----------------------------------------------------------------------------
(* SpecPostmanPath: PostmanImporter.Import of one request, over its URL and  *)
(* the variables of the collection                                           *)

\* URLs whose path segments are literals, {{var}} references or {var}
\* placeholders; the last one is not a URL url.Parse accepts, so its path
\* comes from the segment list
PathURLs ==
    { PostmanURL("/users/{{userId}}", << >>, << >>, << >>),
      PostmanURL("/{{ver}}/users/{{userId}}", << >>, << >>, << >>),
      PostmanURL("/{{ver}}/a/{{ver}}", << >>, << >>, << >>),
      PostmanURL("/orders/{id}", << >>, << >>, << >>),
      PostmanURL("https://h.io/{{ver}}/users?x={{id}}", << >>, << >>, << >>),
      PostmanURL("https://{{host}}/users/{{userId}}", << "users", "{{userId}}" >>, << >>, << >>) }

PathVariableKeys == { "userId", "ver", "id" }

\* empty, digits, lowercase hex and dash, a placeholder, and two plain values
PathVariableValues == { "", "42", "ab-12", "{uid}", "v2", "AB12" }

\* the variable lists: no key twice
PathVariables ==
    { vs \in SeqsUpTo({ PostmanVariable(key, value) :
                          key \in PathVariableKeys, value \in PathVariableValues },
                      MaxPathVariables) :
        \A i, j \in DOMAIN vs : vs[i].Key = vs[j].Key => i = j }

InitPostmanPath ==
    /\ \E postmanURL \in PathURLs, variables \in PathVariables :
          pmCollection =
              PostmanCollection(PostmanSchemaURL,
                                << PostmanItem("Request",
                                               Some(PostmanRequest("GET", << >>, Nil,
                                                                   Some(postmanURL), Nil, Nil)),
                                               << >>) >>,
                                Nil, variables)
    /\ pmAPI = Nil
    /\ pmpc = "import"
    /\ InitImportIdle
    /\ RTIdle
    /\ AlIdle
    /\ InIdle
    /\ WIdle

NextPostmanPath == PostmanImportStep

SpecPostmanPath == InitPostmanPath /\ [][NextPostmanPath]_vars

\* the path of the request imported, before any variable is looked at
RequestPath ==
    LET postmanURL == pmCollection.Item[1].Request[1].URL[1]
    IN  IF postmanURL.Raw # "" /\ URLParse(postmanURL.Raw).ok
        THEN URLParse(postmanURL.Raw).Path
        ELSE "/" \o Join(postmanURL.Path, "/")

\* the value looks like a path parameter: digits only, lowercase hex digits
\* and dashes only, or a name in braces
ParameterLike(value) ==
    \/ value # "" /\ AllIn(value, "0123456789")
    \/ value # "" /\ AllIn(value, "0123456789abcdef-")
    \/ /\ Len(value) > 2
       /\ HasPrefix(value, "{")
       /\ HasSuffix(value, "}")
       /\ AllIn(SubSeq(value, 2, Len(value) - 1),
                "abcdefghijklmnopqrstuvwxyzABCDEFGHIJKLMNOPQRSTUVWXYZ0123456789_")

\* what the segment of a path is stated to become: a reference {{var}} or a
\* placeholder {var} becomes the value of the collection variable var when
\* that value is neither empty nor like a path parameter, and {var} otherwise
StatedSegment(segment) ==
    LET name == IF HasPrefix(segment, "{{") /\ HasSuffix(segment, "}}")
                THEN SubSeq(segment, 3, Len(segment) - 2)
                ELSE IF HasPrefix(segment, "{") /\ HasSuffix(segment, "}")
                THEN SubSeq(segment, 2, Len(segment) - 1)
                ELSE ""
        values == { pmCollection.Variable[i].Value :
                      i \in { j \in DOMAIN pmCollection.Variable :
                                pmCollection.Variable[j].Key = name } }
    IN  IF name = "" THEN segment
        ELSE IF \E value \in values : value # "" /\ ~ParameterLike(value)
        THEN CHOOSE value \in values : TRUE
        ELSE "{" \o name \o "}"

\* C20: in the path extracted, every {{var}} is {var}, a variable whose
\* value is digits only, lowercase hex and dashes, or of the form {name}
\* stays the placeholder {var}, as does one with an empty value or without
\* a collection variable, and a variable with any other value has every
\* occurrence of its placeholder replaced by the value.
ThmC20PathExtraction ==
    PMDone =>
        LET segments == Split(RequestPath, "/")
        IN  pmAPI[1].Endpoints[1].Path =
                Join([k \in DOMAIN segments |-> StatedSegment(segments[k])], "/")

\* {{ver}} is replaced by its value v2 while {{userId}}, whose value ab-12
\* is lowercase hex and a dash, stays the placeholder {userId}
WitC20PathExtraction ==
    /\ PMDone
    /\ pmCollection.Item[1].Request[1].URL[1].Raw = "/{{ver}}/users/{{userId}}"
    /\ pmCollection.Variable = << PostmanVariable("userId", "ab-12"), PostmanVariable("ver", "v2") >>
    /\ pmAPI[1].Endpoints[1].Path = "/v2/users/{userId}"

-----------------------------------------------------------------------------
(* SpecPostmanBody: PostmanImporter.Import of one request, over its method,  *)
(* its URL and its body                                                      *)

\* the raw texts: empty, {}, three objects, null, and text that is no object
BodyRawTexts ==
    { RawText(TRUE, Nil),
      RawText(FALSE, Some(EmptyMap)),
      RawText(FALSE, Some([k \in { "id", "price" } |->
                              IF k = "id" THEN JSONValue("number", "42")
                              ELSE JSONValue("number", "3.14")])),
      RawText(FALSE, Some([k \in { "on", "tags", "none" } |->
                              IF k = "on" THEN JSONValue("bool", "true")
                              ELSE IF k = "tags" THEN JSONValue("array", "")
                              ELSE JSONValue("null", "")])),
      RawText(FALSE, Some([k \in { "name", "body" } |->
                              IF k = "name" THEN JSONValue("string", "Ann")
                              ELSE JSONValue("object", "")])),
      RawNull,
      RawText(FALSE, Nil) }

BodyPool ==
    { PostmanBody("raw", raw, << >>, << >>) : raw \in BodyRawTexts }
        \cup { PostmanBody("urlencoded", RawText(TRUE, Nil),
                           << PostmanQuery("q", "1", FALSE), PostmanQuery("off", "1", TRUE) >>,
                           << >>),
               PostmanBody("formdata", RawText(TRUE, Nil), << >>,
                           << PostmanFormParameter("doc", "", "file", FALSE) >>) }

BodyMethods == { "GET", "DELETE", "POST", "put", "PATCH" }

InitPostmanBody ==
    /\ \E method \in BodyMethods, body \in { Nil } \cup { Some(b) : b \in BodyPool },
          postmanURL \in { Nil, Some(PostmanURL("/items", << >>, << >>, << >>)) } :
          pmCollection =
              PostmanCollection(PostmanSchemaURL,
                                << PostmanItem("Request",
                                               Some(PostmanRequest(method, << >>, body,
                                                                   postmanURL, Nil, Nil)),
                                               << >>) >>,
                                Nil, << >>)
    /\ pmAPI = Nil
    /\ pmpc = "import"
    /\ InitImportIdle
    /\ RTIdle
    /\ AlIdle
    /\ InIdle
    /\ WIdle

NextPostmanBody == PostmanImportStep

SpecPostmanBody == InitPostmanBody /\ [][NextPostmanBody]_vars

\* the request imported and the body fields of the endpoint made of it
\* (none when the endpoint has no request)
BodyRequest == pmCollection.Item[1].Request[1]

BodyFields ==
    IF IsNil(pmAPI[1].Endpoints[1].Request) THEN EmptyMap
    ELSE pmAPI[1].Endpoints[1].Request[1].Body[1]

\* the request has a raw body and a method other than GET and DELETE
RawBodyParsed ==
    /\ pmAPI[1].Endpoints[1].Method \notin { "GET", "DELETE" }
    /\ ~IsNil(BodyRequest.Body)
    /\ BodyRequest.Body[1].Mode = "raw"

\* one required field for every top-level key of the object
RequiredPerKey(object) ==
    /\ DOMAIN BodyFields = DOMAIN object
    /\ \A key \in DOMAIN object : HasSuffix(BodyFields[key], ", required")

\* C21 as stated: a GET or DELETE endpoint has no body field; for another
\* method, a raw body that is a JSON object gives one required field per
\* top-level key, and every other non-empty raw body gives the single field
\* body = "object, required".
CexC21RequestBodyParsing ==
    PMDone =>
        /\ pmAPI[1].Endpoints[1].Method \in { "GET", "DELETE" } => BodyFields = EmptyMap
        /\ RawBodyParsed =>
              LET raw == BodyRequest.Body[1].Raw
              IN  /\ ~IsNil(raw.json) => RequiredPerKey(raw.json[1])
                  /\ (~raw.empty /\ IsNil(raw.json)) =>
                        BodyFields = [f \in { "body" } |-> "object, required"]

\* C21 (amended): a GET or DELETE endpoint has no body field; for another
\* method, a raw body that json.Unmarshal decodes into a map gives one
\* required field per top-level key, which is no field for the text null
\* as for {}, a non-empty raw body that json.Unmarshal rejects gives the
\* single field body = "object, required", and an empty one gives no field.
ThmC21RequestBodyParsing ==
    PMDone =>
        /\ pmAPI[1].Endpoints[1].Method \in { "GET", "DELETE" } => BodyFields = EmptyMap
        /\ RawBodyParsed =>
              LET raw == BodyRequest.Body[1].Raw
              IN  /\ ~IsNil(raw.json) => RequiredPerKey(raw.json[1])
                  /\ raw.null => BodyFields = EmptyMap
                  /\ raw.empty => BodyFields = EmptyMap
                  /\ (~raw.empty /\ ~raw.null /\ IsNil(raw.json)) =>
                        BodyFields = [f \in { "body" } |-> "object, required"]

\* a PUT request whose raw body is null is imported without body field
WitC21RequestBodyParsing ==
    /\ PMDone
    /\ BodyRequest.Method = "put"
    /\ pmAPI[1].Endpoints[1].Method = "PUT"
    /\ BodyRequest.Body = Some(PostmanBody("raw", RawNull, << >>, << >>))
    /\ ~IsNil(pmAPI[1].Endpoints[1].Request)
    /\ BodyFields = EmptyMap

\* the JSON object a raw body was decoded into (none: the empty map)
BodyObject ==
    IF RawBodyParsed /\ ~IsNil(BodyRequest.Body[1].Raw.json)
    THEN BodyRequest.Body[1].Raw.json[1] ELSE EmptyMap

\* the type tags of the descriptors
TypeTags == { "string", "uuid", "datetime", "integer", "number", "boolean", "array", "object" }

\* C22: a field whose value is a number written without fraction, such as
\* 42, gets the tag integer, one written with a fraction, such as 3.14, the
\* tag number, and every field gets exactly one tag.
CexC22NumberTypeInference ==
    PMDone =>
        \A key \in DOMAIN BodyObject :
            /\ \E tag \in TypeTags : BodyFields[key] = tag \o ", required"
            /\ BodyObject[key].kind = "number" =>
                  BodyFields[key] =
                      (IF Contains(BodyObject[key].str, ".") THEN "number" ELSE "integer")
                          \o ", required"

-----------------------------------------------------------------------------
(* SpecServers: OpenAPIImporter.Import of documents without paths, over      *)
(* their servers                                                             *)

ServerURLs ==
    { "https://h.io/v2", "http://h.io", "https://h.io/", "http://h.io/a/b", "https://",
      "/api", "api/v2", "", "HTTPS://h.io/x" }

InitServers ==
    /\ InitImportIdle
    /\ PMIdle
    /\ AlIdle
    /\ InIdle
    /\ WIdle
    /\ rtA = API("", "", << >>)
    /\ \E urls \in SeqsUpTo(ServerURLs, MaxServers) :
          rtDoc = Some([servers |-> [i \in DOMAIN urls |-> [url |-> urls[i]]],
                        paths |-> EmptyMap])
    /\ rtAPI = Nil
    /\ rtpc = "import"

NextServers == ReimportOpenAPI

SpecServers == InitServers /\ [][NextServers]_vars

\* the servers of the document imported
DocServers == rtDoc[1].servers

\* the text of an absolute URL after its scheme: host and what follows
AfterScheme(url) == From(url, Index(url, "//") + 2)

\* C23: with no servers the base URL is /api/v1; for a first server URL that
\* starts with http:// or https:// it is "/" and everything after the "/"
\* that ends the host, or /api/v1 when no "/" follows the host; for any
\* other URL it is the URL, with a "/" put in front unless it starts with
\* one.  It always starts with "/".
ThmC23OpenAPIBaseURL ==
    (rtpc = "done" /\ ~IsNil(rtDoc) /\ "servers" \in DOMAIN rtDoc[1]) =>
        /\ HasPrefix(rtAPI[1].BaseURL, "/")
        /\ rtAPI[1].BaseURL =
              IF DocServers = << >> THEN "/api/v1"
              ELSE LET url == DocServers[1].url
                   IN  IF HasPrefix(url, "http://") \/ HasPrefix(url, "https://")
                       THEN IF Contains(AfterScheme(url), "/")
                            THEN From(AfterScheme(url), Index(AfterScheme(url), "/"))
                            ELSE "/api/v1"
                       ELSE IF HasPrefix(url, "/") THEN url
                       ELSE "/" \o url

\* the first of two servers is absolute with a path of two segments
WitC23OpenAPIBaseURL ==
    /\ rtpc = "done"
    /\ ~IsNil(rtDoc) /\ "servers" \in DOMAIN rtDoc[1]
    /\ Len(DocServers) = 2
    /\ DocServers[1].url = "http://h.io/a/b"
    /\ DocServers[2].url = "/api"
    /\ rtAPI[1].BaseURL = "/a/b"

-----------------------------------------------------------------------------
(* SpecContent: OpenAPIImporter.Import of documents with one operation, over *)
(* the media types its request body and its 200 response offer               *)

MediaTypes == { "application/json", "application/xml", "application/vnd.api+json" }

\* the schema a media type carries: without properties, or with one
\* property named after the media type
MediaSchemas(ct) ==
    { [type |-> "object"],
      [type |-> "object",
       properties |-> [p \in { ct \o "-field" } |-> [type |-> "string"]]] }

\* every content object over the media types
Contents ==
    UNION { { content \in [types -> UNION { MediaSchemas(ct) : ct \in types }] :
                \A ct \in types : content[ct] \in MediaSchemas(ct) } :
            types \in SUBSET MediaTypes }

\* POST /items with the request body and the response 200
ContentDoc(requestContent, responseContent) ==
    [paths |->
        [p \in { "/items" } |->
            [m \in { "post" } |->
                [requestBody |->
                    [content |-> [ct \in DOMAIN requestContent |->
                                    [schema |-> requestContent[ct]]]],
                 responses |->
                    [st \in { "200" } |->
                        [content |-> [ct \in DOMAIN responseContent |->
                                        [schema |-> responseContent[ct]]]]]]]]]

InitContent ==
    /\ InitImportIdle
    /\ PMIdle
    /\ AlIdle
    /\ InIdle
    /\ WIdle
    /\ rtA = API("", "", << >>)
    /\ \E requestContent \in Contents, responseContent \in Contents :
          rtDoc = Some(ContentDoc(requestContent, responseContent))
    /\ rtAPI = Nil
    /\ rtpc = "import"

NextContent == ReimportOpenAPI

SpecContent == InitContent /\ [][NextContent]_vars

\* the operation of the document imported
ContentOperation == rtDoc[1].paths["/items"]["post"]

\* the names of the properties of the schema a media type carries
PropertiesOf(content, ct) ==
    IF "properties" \in DOMAIN content[ct].schema
    THEN DOMAIN content[ct].schema.properties ELSE { }

\* the fields come from the schema of a json media type when one is offered
FromJSONMediaType(fields, content) ==
    LET jsonTypes == { ct \in DOMAIN content : Contains(ct, "json") }
    IN  jsonTypes # { } => \E ct \in jsonTypes : DOMAIN fields = PropertiesOf(content, ct)

\* C24: when the request body or the response offers a media type whose key
\* contains "json", the fields imported are those of the schema of a json
\* media type, also when that schema has no properties and another media
\* type has some.
CexC24ContentTypeSelection ==
    (rtpc = "done" /\ ~IsNil(rtDoc) /\ "paths" \in DOMAIN rtDoc[1]
        /\ "/items" \in DOMAIN rtDoc[1].paths) =>
        /\ FromJSONMediaType(rtAPI[1].Endpoints[1].Request[1].Body[1],
                             ContentOperation.requestBody.content)
        /\ FromJSONMediaType(rtAPI[1].Endpoints[1].Response[1].Body[1],
                             ContentOperation.responses["200"].content)

-----------------------------------------------------------------------------
(* C25: the overwrite guard of runImport                                     *)

\* the run may write .architect/api.yaml: it was missing before the run, or
\* --overwrite or --merge was given
MayWrite == apiYamlBefore.st = "missing" \/ overwriteFlag \/ mergeFlag

\* C25: a run of import writes .architect/api.yaml only if the file did not
\* exist before the run or --overwrite or --merge was given; a run over an
\* existing file with neither flag ends with an error, never reaches the
\* write or the sync, and leaves the file, project.md and the rules file
\* unchanged: no step of such a run changes any of the three.
ThmC25ImportOverwriteGuard ==
    /\ [](/\ (InTrace("write") \/ apiYaml # apiYamlBefore) => MayWrite
          /\ (pc = "done" /\ ~MayWrite) =>
                /\ err # ""
                /\ ~InTrace("write")
                /\ ~InTrace("sync")
                /\ apiYaml = apiYamlBefore
                /\ IsNil(rulesFile)
          /\ err = "exists" => ~MayWrite /\ pc = "done")
    /\ [][(apiYaml' # apiYaml \/ projectMd' # projectMd \/ rulesFile' # rulesFile)
             => MayWrite /\ pc \in { "write", "sync" }]_vars

\* a run over an existing api.yaml, without --merge and --overwrite, that got
\* as far as the guard and was cancelled there with everything left in place
WitC25ImportOverwriteGuard ==
    /\ pc = "done"
    /\ err = "exists"
    /\ InTrace("guard")
    /\ apiYamlBefore.st = "ok"
    /\ ~overwriteFlag /\ ~mergeFlag
    /\ apiYaml = apiYamlBefore
    /\ IsNil(rulesFile)

-----------------------------------------------------------------------------
(* SpecStatus: OpenAPIImporter.Import of documents whose one operation       *)
(* answers under every set of status-code keys                               *)

StatusKeys == { "200", "201", "202", "204", "206", "301", "404", "default" }

\* GET /jobs with one response per key
StatusDoc(keys) ==
    [paths |->
        [p \in { "/jobs" } |->
            [m \in { "get" } |->
                [responses |-> [st \in keys |-> [description |-> st]]]]]]

InitStatus ==
    /\ InitImportIdle
    /\ PMIdle
    /\ AlIdle
    /\ InIdle
    /\ WIdle
    /\ rtA = API("", "", << >>)
    /\ \E keys \in SUBSET StatusKeys : rtDoc = Some(StatusDoc(keys))
    /\ rtAPI = Nil
    /\ rtpc = "import"

NextStatus == ReimportOpenAPI

SpecStatus == InitStatus /\ [][NextStatus]_vars

\* the 2xx keys of the responses object of the document imported
SuccessKeys ==
    { st \in DOMAIN rtDoc[1].paths["/jobs"]["get"].responses : HasPrefix(st, "2") }

\* the integer a status-code key denotes
StatusValue(key) == CHOOSE n \in 100..599 : Itoa(n) = key

\* C26: for every imported endpoint that has a response, response.status is
\* the integer value of the key of one of the 2xx responses of the operation
\* (key "202" gives status 202), and an operation with no 2xx response
\* yields an endpoint with no response.
CexC26ResponseStatusKept ==
    (rtpc = "done" /\ ~IsNil(rtDoc) /\ "paths" \in DOMAIN rtDoc[1]
        /\ "/jobs" \in DOMAIN rtDoc[1].paths) =>
        LET response == rtAPI[1].Endpoints[1].Response
        IN  /\ IsNil(response) <=> SuccessKeys = { }
            /\ ~IsNil(response) =>
                  response[1].Status \in { StatusValue(st) : st \in SuccessKeys }

-----------------------------------------------------------------------------
(* SpecConsistency: either importer applied to inputs that declare auth at   *)
(* every level it reads                                                      *)

\* requests with and without declared auth and an Authorization header
ConsistencyItems ==
    { PostmanItem("List items",
                  Some(PostmanRequest("GET", header, Nil,
                                      Some(PostmanURL("/items", << "items" >>, << >>, << >>)),
                                      auth, Nil)),
                  << >>) :
        header \in { << >>, << PostmanHeader("Authorization", "Digest abc") >> },
        auth \in { Nil, Some(PostmanAuth("noauth")), Some(PostmanAuth("oauth2")),
                   Some(PostmanAuth("digest")) } }

ConsistencyCollections ==
    { PostmanCollection(PostmanSchemaURL, items, auth, << >>) :
        items \in SeqsUpTo(ConsistencyItems, MaxConsistencyRequests),
        auth \in { Nil, Some(PostmanAuth("noauth")), Some(PostmanAuth("bearer")) } }

\* the security list of an operation: none, bearerAuth, or another scheme
SecurityLists == { << >>, << [bearerAuth |-> << >>] >>, << [apiKeyAuth |-> << >>] >> }

\* a document with GET /a and POST /b, each with its own security list
ConsistencyDoc(securityA, securityB) ==
    [paths |->
        ("/a" :> [m \in { "get" } |->
                    IF securityA = << >> THEN [summary |-> "a"]
                    ELSE [summary |-> "a", security |-> securityA]])
        @@
        ("/b" :> [m \in { "post" } |->
                    IF securityB = << >> THEN [summary |-> "b"]
                    ELSE [summary |-> "b", security |-> securityB]])]

InitConsistency ==
    /\ InitImportIdle
    /\ AlIdle
    /\ InIdle
    /\ WIdle
    /\ \/ /\ pmCollection \in ConsistencyCollections
          /\ pmAPI = Nil
          /\ pmpc = "import"
          /\ RTIdle
       \/ /\ rtA = API("", "", << >>)
          /\ \E securityA \in SecurityLists, securityB \in SecurityLists :
                rtDoc = Some(ConsistencyDoc(securityA, securityB))
          /\ rtAPI = Nil
          /\ rtpc = "import"
          /\ PMIdle

NextConsistency == PostmanImportStep \/ ReimportOpenAPI

SpecConsistency == InitConsistency /\ [][NextConsistency]_vars

\* an API whose auth type is "none" has no endpoint with auth = true
AuthConsistent(api) ==
    api.AuthType = "none" => \A i \in DOMAIN api.Endpoints : ~api.Endpoints[i].Auth

\* C27: in every API returned by the OpenAPI importer or the Postman
\* importer, if the API-level auth type is "none" then no endpoint has
\* auth = true.
CexC27AuthConsistency ==
    /\ pmpc = "done" => AuthConsistent(pmAPI[1])
    /\ rtpc = "done" => AuthConsistent(rtAPI[1])

\* the OpenAPI importer alone returns consistent APIs
OpenAPIAuthConsistent == rtpc = "done" => AuthConsistent(rtAPI[1])

-----------------------------------------------------------------------------
(* SpecExport: exportOpenAPI over every API auth type and every choice of    *)
(* endpoint auth flags                                                       *)

ExportAuthTypes == { "none", "bearer", "basic", "apikey" }

ExportPool ==
    { Endpoint(p, "GET", "", auth, Nil, Nil, << >>) : p \in { "/a", "/b" }, auth \in BOOLEAN }

InitExport ==
    /\ InitImportIdle
    /\ PMIdle
    /\ AlIdle
    /\ InIdle
    /\ WIdle
    /\ \E a \in ExportAuthTypes, el \in SeqsUpTo(ExportPool, MaxRTEndpoints) :
          rtA = API("/api/v1", a, el)
    /\ rtDoc = Nil
    /\ rtAPI = Nil
    /\ rtpc = "export"

NextExport == RunExportOpenAPI

SpecExport == InitExport /\ [][NextExport]_vars

\* the security scheme names an exported document declares
DeclaredSchemes(doc) ==
    IF "components" \in DOMAIN doc THEN DOMAIN doc.components.securitySchemes ELSE { }

\* the security scheme names the operations of an exported document refer to
ReferencedSchemes(doc) ==
    UNION { UNION { UNION { DOMAIN doc.paths[p][m].security[i] :
                            i \in DOMAIN doc.paths[p][m].security } :
                    m \in DOMAIN doc.paths[p] } :
            p \in DOMAIN doc.paths }

\* C28: in every exported document, each security scheme name an
\* operation's security list refers to is declared under
\* components.securitySchemes, whatever the API auth type and the endpoint
\* auth flags.
CexC28NoDanglingSecurity ==
    ~IsNil(rtDoc) => ReferencedSchemes(rtDoc[1]) \subseteq DeclaredSchemes(rtDoc[1])

-----------------------------------------------------------------------------
(* runWatch (internal/commands/watch.go): the event loop, the debounce       *)
(* timer and the callbacks that run runSync                                  *)

\* 500 * time.Millisecond, in ticks of 250 ms
DebounceTicks == 2

\* fsnotify.Event: Op is a set of operation bits
WatchedEvent(op, name) == [Kind |-> "event", Op |-> op, Name |-> name]

\* a value received from watcher.Errors
WatchedError == [Kind |-> "error", Op |-> { }, Name |-> ""]

ShouldSyncAnyExtension(event) == "Write" \in event.Op \/ "Create" \in event.Op

\* the conditions of the event case under which syncFunc is called
ShouldSync(event) ==
    /\ "Write" \in event.Op \/ "Create" \in event.Op
    /\ Ext(event.Name) \in { ".md", ".yaml", ".yml" }

EventOps == { { "Create" }, { "Write" }, { "Remove" }, { "Chmod" }, { "Write", "Chmod" } }

EventNames == { ".architect/api.yaml", ".architect/project.md", ".architect/extra.yml",
                ".architect/api.yaml.swp", ".architect/notes" }

\* case event := <-watcher.Events: syncFunc stops the pending timer and arms
\* a new one when the event is a Write or Create of a .md, .yaml or .yml file
WatchEvent ==
    /\ wEvents < MaxEvents
    /\ wNow + DebounceTicks <= MaxTime
    /\ \E op \in EventOps, name \in EventNames :
          LET event == WatchedEvent(op, name)
          IN  /\ wEvent' = Some(event)
              /\ IF ShouldSync(event)
                 THEN /\ wTimer' = Some(wNow + DebounceTicks)
                      /\ wLast' = Some(wNow)
                      /\ wBursts' = IF IsNil(wLast) \/ wNow - wLast[1] >= DebounceTicks
                                    THEN wBursts + 1 ELSE wBursts
                 ELSE UNCHANGED << wTimer, wLast, wBursts >>
    /\ wEvents' = wEvents + 1
    /\ UNCHANGED << wNow, wRunning, wWriting, wSyncs >>
    /\ UNCHANGED exceptW

\* case err := <-watcher.Errors: the error is logged
WatchError ==
    /\ wEvents < MaxEvents
    /\ wEvent' = Some(WatchedError)
    /\ wEvents' = wEvents + 1
    /\ UNCHANGED << wNow, wTimer, wRunning, wWriting, wLast, wBursts, wSyncs >>
    /\ UNCHANGED exceptW

\* the timer armed by time.AfterFunc expires: its function starts in a
\* goroutine of its own, at the deadline or later, and enters runSync
TimerFires ==
    /\ ~IsNil(wTimer)
    /\ wNow >= wTimer[1]
    /\ wTimer' = Nil
    /\ wRunning' = wRunning + 1
    /\ wSyncs' = wSyncs + 1
    /\ UNCHANGED << wNow, wWriting, wEvent, wEvents, wLast, wBursts >>
    /\ UNCHANGED exceptW

\* a callback has read the specifications and enters os.WriteFile of the
\* rules file
SyncWrite ==
    /\ wRunning > 0
    /\ wRunning' = wRunning - 1
    /\ wWriting' = wWriting + 1
    /\ UNCHANGED << wNow, wTimer, wEvent, wEvents, wLast, wBursts, wSyncs >>
    /\ UNCHANGED exceptW

\* runSync returns an error before the write; the callback prints it
SyncFail ==
    /\ wRunning > 0
    /\ wRunning' = wRunning - 1
    /\ UNCHANGED << wNow, wTimer, wWriting, wEvent, wEvents, wLast, wBursts, wSyncs >>
    /\ UNCHANGED exceptW

\* os.WriteFile and runSync return
SyncReturn ==
    /\ wWriting > 0
    /\ wWriting' = wWriting - 1
    /\ UNCHANGED << wNow, wTimer, wRunning, wEvent, wEvents, wLast, wBursts, wSyncs >>
    /\ UNCHANGED exceptW

\* time passes; an expired timer starts its callback within MaxLatency ticks
Tick ==
    /\ wNow < MaxTime
    /\ IF IsNil(wTimer) THEN TRUE ELSE wNow < wTimer[1] + MaxLatency
    /\ wNow' = wNow + 1
    /\ UNCHANGED << wTimer, wRunning, wWriting, wEvent, wEvents, wLast, wBursts, wSyncs >>
    /\ UNCHANGED exceptW

InitWatch ==
    /\ InitImportIdle
    /\ RTIdle
    /\ PMIdle
    /\ AlIdle
    /\ InIdle
    /\ WIdle

NextWatch ==
    \/ WatchEvent
    \/ WatchError
    \/ TimerFires
    \/ SyncWrite
    \/ SyncFail
    \/ SyncReturn
    \/ Tick

SpecWatch == InitWatch /\ [][NextWatch]_vars

\* the runtime starts the callback of an expired timer, and time passes
SpecWatchFair == SpecWatch /\ WF_vars(TimerFires) /\ WF_vars(Tick)

-----------------------------------------------------------------------------
(* C29, C30: the debounce of watch mode                                      *)

\* 1 while debounceTimer is pending, else 0
Pending == IF IsNil(wTimer) THEN 0 ELSE 1

\* a Write or Create event on a file whose name ends in .md, .yaml or .yml
SchedulingEvent(event) ==
    /\ event.Kind = "event"
    /\ event.Op \cap { "Write", "Create" } # { }
    /\ \E ext \in { ".md", ".yaml", ".yml" } : HasSuffix(event.Name, ext)

\* a step in which the loop receives an event or an error
Received == wEvents' = wEvents + 1

\* the receipt of a scheduling event, and nothing else, arms the timer, for
\* 500 ms from now; the timer is disarmed only by the start of its
\* callback, which happens 500 ms or more after the last scheduling event
DebounceSteps ==
    /\ (Received /\ SchedulingEvent(wEvent'[1])) => wTimer' = Some(wNow + DebounceTicks)
    /\ (Received /\ ~SchedulingEvent(wEvent'[1])) => wTimer' = wTimer
    /\ ~Received => wTimer' = wTimer \/ (IsNil(wTimer') /\ wSyncs' = wSyncs + 1)
    /\ wSyncs' # wSyncs =>
          /\ wSyncs' = wSyncs + 1
          /\ ~IsNil(wLast)
          /\ wNow >= wLast[1] + DebounceTicks

\* the bursts that caused no sync of their own
Superseded == wBursts - wSyncs - Pending

\* C29: only Write or Create events on .md, .yaml or .yml files schedule a
\* sync, and every burst of such events less than 500 ms apart causes
\* exactly one sync, which starts no earlier than 500 ms after the last
\* event of the burst: the syncs started and the one pending are as many
\* as the bursts.
CexC29WatchDebounce ==
    /\ [](wSyncs + Pending = wBursts)
    /\ [][DebounceSteps]_vars

\* C29 (amended): only Write or Create events on .md, .yaml or .yml files
\* schedule a sync; a sync starts no earlier than 500 ms after the last
\* such event, and no burst causes more than one; a burst causes none
\* exactly when the first event of the next burst is received, at the
\* deadline of the pending timer or later, before the timer's callback has
\* started; and a pending timer leads to the start of a sync.
ThmC29WatchDebounce ==
    /\ [](Superseded >= 0)
    /\ [][DebounceSteps]_vars
    /\ [][Superseded' # Superseded =>
             /\ Superseded' = Superseded + 1
             /\ Received
             /\ wBursts' = wBursts + 1
             /\ ~IsNil(wTimer)
             /\ wNow >= wTimer[1]]_vars
    /\ \A n \in 0..MaxEvents : (Pending = 1 /\ wSyncs = n) ~> (wSyncs > n)

\* two bursts, of which the second began before the callback of the first
\* had started, and the one sync they caused
WitC29WatchDebounce ==
    /\ wBursts = 2
    /\ wSyncs = 1
    /\ Pending = 0
    /\ wRunning + wWriting = 1

\* C30: the execution of one debounced sync callback has finished before
\* the next one starts, so that no two callbacks are inside runSync, and
\* none inside the write of the rules file, at the same time.
CexC30NoConcurrentSyncs ==
    /\ wRunning + wWriting <= 1
    /\ wWriting <= 1

====
